---- MODULE Spec2Model ----
(***************************************************************************)
(* Realtime diagram collaboration backend: the NestJS websocket gateway    *)
(* (diagram.gateway.ts), the in-memory room registry with its debounced    *)
(* save (realtime.service.ts) and the persistent store they talk to.       *)
(*                                                                         *)
(* Handlers are async functions.  A handler runs synchronously up to its   *)
(* first store call; from then on every step of the model is "one store    *)
(* call executes, and the handler continues up to its next store call".    *)
(* Handlers of different messages interleave at those points.              *)
(***************************************************************************)
EXTENDS Integers, Sequences, FiniteSets, TLC

VARIABLES
  members,     \* store: ProjectMember rows, [project -> [user -> role or NoRow]]
  diagram,     \* store: Diagram.snapshot JSON column per project (or no row)
  requests,    \* store: EditRequest rows, [project -> [requester -> row or NoRow]]
  rooms,       \* RealtimeService.rooms : Map<projectId, RoomState>
  roomSeq,     \* number of RoomState objects constructed so far (object identity)
  roomProj,    \* projectId captured by the closure of each RoomState's debouncedSave
  timer,       \* per debouncedSave instance: ticks left until it fires, or Idle
  saving,      \* debounced saves whose store write is in flight
  now,         \* wall clock, in ticks
  sock,        \* each socket: "new", "open" (connected) or "closed"
  sockRooms,   \* socket.io rooms (broadcast groups) each socket is in
  data,        \* client.data of each socket
  client,      \* the credentials each connected client holds and sends
  msgs,        \* messages handled so far
  tasks,       \* handler invocations suspended at a store call
  out,         \* events emitted by the last step, in emission order
  lastOp,      \* what the last step was
  elapsed,     \* per debouncedSave instance: ticks since it was last invoked
  fired,       \* per debouncedSave instance: writes fired since it was last invoked
  ensured      \* per project: id of the room returned by the last completed ensureRoom

vars == <<members, diagram, requests, rooms, roomSeq, roomProj, timer, saving, now, sock,
          sockRooms, data, client, msgs, tasks, out, lastOp, elapsed, fired, ensured>>

storeVars == <<members, diagram, requests>>
roomVars == <<rooms, roomSeq, roomProj, timer, saving, elapsed, fired, ensured>>
connVars == <<sock, sockRooms, data, client>>

(***************************************************************************)
(* Bounds of the model                                                     *)
(***************************************************************************)
MaxTime == 4       \* the clock stops advancing here
MaxQueue == 2      \* patches queued per room
MaxRooms == 3      \* RoomState objects constructed in one run
MaxTasks == 2      \* handler invocations suspended at the same time
MaxMsgs == 3       \* client messages handled in one run
MaxCalls == 4      \* calls of the room registry made in one run
MaxRest == 2       \* REST requests handled in one run
MaxEdits == 3      \* messages handled in one run of the edit-access protocol

\* lodash debounce wait of 800 ms, in ticks of 400 ms
Delay == 2

\* a debouncedSave with no timer pending
Idle == 0 - 1

ProjectIds == {"p1", "p2"}
\* an id that names no Project row
Ghost == "p0"
AnyProjectIds == ProjectIds \cup {Ghost}
Users == {"u1", "u2"}
ConnOrder == <<"c1", "c2">>
Conns == {ConnOrder[i] : i \in 1..Len(ConnOrder)}
TaskIds == 1..MaxTasks
RoomIds == 1..MaxRooms

Absent == "absent"   \* JavaScript undefined
Null == "null"       \* JavaScript null
NoRow == "norow"     \* the store holds no such row

(***************************************************************************)
(* Store: Project rows are fixed (no handler of the gateway writes them).  *)
(***************************************************************************)
ProjectOwner(p) == IF p = "p1" THEN "u1" ELSE "u2"

\* one notification channel shared by all users
UserChannel_Shared(u) == "user:u1"

\* the private notification channel `user:${userId}`
UserChannel(u) == IF u = "u1" THEN "user:u1" ELSE "user:u2"

\* prisma.project.findUnique({ select: { ownerId, members: { where: { userId } } } })
FindProject(p, uid) ==
  [ownerId |-> ProjectOwner(p),
   members |-> IF uid \in Users /\ members[p][uid] # NoRow THEN <<members[p][uid]>> ELSE <<>>]

(***************************************************************************)
(* Credentials                                                             *)
(***************************************************************************)
AuthTokens == {Absent, "jwt_u1", "jwt_u2", "jwt_noid", "jwt_forged"}
ShareTokens == {Absent, "share_p1", "share_junk"}

\* what a client holds: the credential of its handshake, and the authToken and
\* shareToken it puts in its join messages
Cred(handshake, auth, share) == [handshake |-> handshake, auth |-> auth, share |-> share]
NoCred == Cred(Absent, Absent, Absent)
Clients ==
  {Cred("jwt_u1", "jwt_u1", Absent), Cred(Absent, "jwt_u1", Absent),
   Cred("jwt_u2", "jwt_u2", Absent), Cred("jwt_u2", "jwt_u2", "share_junk"),
   Cred(Absent, Absent, "share_p1"), Cred(Absent, Absent, "share_junk"),
   NoCred,
   Cred("jwt_forged", "jwt_forged", "share_p1"), Cred(Absent, "jwt_forged", Absent),
   Cred(Absent, "jwt_noid", "share_junk")}
\* the second socket is a peer of the first: the owner, a guest with the link, a user
Peers ==
  {Cred("jwt_u1", "jwt_u1", Absent), Cred(Absent, Absent, "share_p1"),
   Cred("jwt_u2", "jwt_u2", Absent)}
ClientsOf(c) == IF c = ConnOrder[1] THEN Clients ELSE Peers

\* a verification that reads the payload without checking the signature
JwtVerify_Unsigned(token) ==
  CASE token = "jwt_u2" -> [ok |-> TRUE, id |-> Absent, sub |-> "u2"]
    [] token = "jwt_noid" -> [ok |-> TRUE, id |-> Absent, sub |-> Absent]
    [] OTHER -> [ok |-> TRUE, id |-> "u1", sub |-> Absent]

\* JwtService.verify: the payload of a token signed with the secret; ok = FALSE
\* stands for verify throwing
JwtVerify(token) ==
  CASE token = "jwt_u1" -> [ok |-> TRUE, id |-> "u1", sub |-> Absent]
    [] token = "jwt_u2" -> [ok |-> TRUE, id |-> Absent, sub |-> "u2"]
    [] token = "jwt_noid" -> [ok |-> TRUE, id |-> Absent, sub |-> Absent]
    [] OTHER -> [ok |-> FALSE, id |-> Absent, sub |-> Absent]

parseUserIdFromToken(token) ==
  IF token = Absent THEN Null
  ELSE LET payload == JwtVerify(token) IN
       IF ~payload.ok THEN Null
       ELSE IF payload.id # Absent THEN payload.id
       ELSE IF payload.sub # Absent THEN payload.sub
       ELSE Null

\* ShareService.validateShareToken: truthy exactly for the links issued for a project
validateShareToken(p, token) == <<p, token>> \in {<<"p1", "share_p1">>}

(***************************************************************************)
(* JSON values of the Diagram.snapshot column and the snapshot normalizer  *)
(***************************************************************************)
\* a field of a JSON object: its kind and, for arrays, its elements
Fld(k, v) == [k |-> k, v |-> v]
\* an updatedAt field: kind "str" is a non-empty string, v its instant
Upd(k, v) == [k |-> k, v |-> v]

\* a JSON value: t is its type; for a string, parse is what JSON.parse makes of it
Json(t, parse, nodes, edges, updatedAt) ==
  [t |-> t, parse |-> parse, nodes |-> nodes, edges |-> edges, updatedAt |-> updatedAt]

NoFld == Fld("absent", <<>>)
NoUpd == Upd("absent", 0)
JsonScalar(t) == Json(t, "n/a", NoFld, NoFld, NoUpd)
NoDiagram == JsonScalar(NoRow)

\* the snapshot as written to the Json column
ToJson(snap) ==
  Json("obj", "n/a", Fld("arr", snap.nodes), Fld("arr", snap.edges), Upd("str", snap.updatedAt))

\* module load time: EMPTY_SNAPSHOT.updatedAt is evaluated once
BootTime == 0

EMPTY_SNAPSHOT == [nodes |-> <<>>, edges |-> <<>>, updatedAt |-> BootTime]

isRecord(t) == t = "obj"

\* a coercion that stamps every snapshot with the time of the call
coerceSnapshot_Restamp(obj, clock) ==
  [nodes |-> IF obj.nodes.k = "arr" THEN obj.nodes.v ELSE <<>>,
   edges |-> IF obj.edges.k = "arr" THEN obj.edges.v ELSE <<>>,
   updatedAt |-> clock]

coerceSnapshot(obj, clock) ==
  [nodes |-> IF obj.nodes.k = "arr" THEN obj.nodes.v ELSE <<>>,
   edges |-> IF obj.edges.k = "arr" THEN obj.edges.v ELSE <<>>,
   updatedAt |-> IF obj.updatedAt.k = "str" THEN obj.updatedAt.v ELSE clock]

toSnapshot(value, clock) ==
  IF value.t \in {"null", "undefined"} THEN EMPTY_SNAPSHOT
  ELSE IF value.t = "str"
       THEN IF isRecord(value.parse) THEN coerceSnapshot(value, clock) ELSE EMPTY_SNAPSHOT
  ELSE IF isRecord(value.t) THEN coerceSnapshot(value, clock)
  ELSE EMPTY_SNAPSHOT

\* a stored value that is not a well-formed snapshot: edges is a string, updatedAt is missing
StoredMalformed == Json("obj", "n/a", Fld("arr", <<1>>), Fld("str", <<>>), NoUpd)

(***************************************************************************)
(* Messages, events, connection data                                       *)
(***************************************************************************)
Patches == {[type |-> "nodeMoved", id |-> "n1"], [type |-> "full", id |-> "-"]}
NoPatch == [type |-> Absent, id |-> Absent]

Ev(to, ev, payload) == [to |-> to, ev |-> ev, payload |-> payload]

NoData == [projectId |-> Absent, userId |-> Absent, role |-> Absent]

\* an EditRequest row; its id is generated once, when the row of the key is created
ReqRow(status, message, id) == [status |-> status, message |-> message, id |-> id]
ReqId(p, u) == <<"req", p, u>>
NoReq == ReqRow(NoRow, Null, <<>>)

NoRoom == [id |-> 0, snapshot |-> EMPTY_SNAPSHOT, pendingPatches |-> <<>>]

NoTask ==
  [kind |-> "idle", pc |-> "idle", conn |-> Absent, pid |-> Absent, uid |-> Absent,
   snap |-> EMPTY_SNAPSHOT]

Task(kind, pc, conn, pid, uid, snap) ==
  [kind |-> kind, pc |-> pc, conn |-> conn, pid |-> pid, uid |-> uid, snap |-> snap]

\* the last step: the handler, whether it is suspended, done or threw, its socket,
\* the projectId and patch of its message, the room it returned, its store call
Op(op, phase, conn, pid, patch, rid, db) ==
  [op |-> op, phase |-> phase, conn |-> conn, pid |-> pid, patch |-> patch,
   rid |-> rid, db |-> db]

\* the lowest free slot for a suspended handler
FreeTask == IF \E i \in TaskIds : tasks[i] = NoTask
            THEN {CHOOSE i \in TaskIds : tasks[i] = NoTask /\ \A j \in TaskIds : tasks[j] = NoTask => i <= j}
            ELSE {}

Group(g) == {c \in Conns : sock[c] = "open" /\ g \in sockRooms[c]}

\* server.to(group).emit(ev, payload); client.to(group) passes the group without the sender
Broadcast(recipients, ev, payload) ==
  LET s == SelectSeq(ConnOrder, LAMBDA c : c \in recipients)
  IN [i \in 1..Len(s) |-> Ev(s[i], ev, payload)]

(***************************************************************************)
(* RealtimeService: queuePatch                                             *)
(***************************************************************************)
getRoom(p) == rooms[p]

\* queuePatch with a timer that is started once and not restarted by later calls
queuePatch_NoRestart(p, patch) ==
  IF getRoom(p) = NoRoom
  THEN UNCHANGED <<rooms, timer, elapsed, fired>>
  ELSE /\ rooms' = [rooms EXCEPT ![p].pendingPatches = Append(@, patch)]
       /\ timer' = [timer EXCEPT ![rooms[p].id] = IF @ = Idle THEN Delay ELSE @]
       /\ elapsed' = [elapsed EXCEPT ![rooms[p].id] = 0]
       /\ fired' = [fired EXCEPT ![rooms[p].id] = 0]

\* queuePatch that puts the patch at the head of the queue
queuePatch_Front(p, patch) ==
  IF getRoom(p) = NoRoom
  THEN UNCHANGED <<rooms, timer, elapsed, fired>>
  ELSE /\ rooms' = [rooms EXCEPT ![p].pendingPatches = <<patch>> \o @]
       /\ timer' = [timer EXCEPT ![rooms[p].id] = Delay]
       /\ elapsed' = [elapsed EXCEPT ![rooms[p].id] = 0]
       /\ fired' = [fired EXCEPT ![rooms[p].id] = 0]

\* room.pendingPatches.push(patch); room.debouncedSave()  -- nothing without a room
queuePatch(p, patch) ==
  IF getRoom(p) = NoRoom
  THEN UNCHANGED <<rooms, timer, elapsed, fired>>
  ELSE /\ rooms' = [rooms EXCEPT ![p].pendingPatches = Append(@, patch)]
       /\ timer' = [timer EXCEPT ![rooms[p].id] = Delay]
       /\ elapsed' = [elapsed EXCEPT ![rooms[p].id] = 0]
       /\ fired' = [fired EXCEPT ![rooms[p].id] = 0]

(***************************************************************************)
(* DiagramGateway                                                          *)
(***************************************************************************)
\* a connection handler that registers the user of the join credential
Connect_ByAuth(c, cred) ==
  /\ sock[c] = "new"
  /\ sock' = [sock EXCEPT ![c] = "open"]
  /\ client' = [client EXCEPT ![c] = cred]
  /\ LET userId == parseUserIdFromToken(cred.auth) IN
     sockRooms' = [sockRooms EXCEPT ![c] = IF userId # Null THEN {UserChannel(userId)} ELSE {}]
  /\ out' = <<>>
  /\ lastOp' = Op("connect", "done", c, Absent, NoPatch, 0, "none")
  /\ UNCHANGED <<storeVars, roomVars, now, data, tasks, msgs>>

\* handleConnection: a verified handshake credential joins the user's channel
Connect(c, cred) ==
  /\ sock[c] = "new"
  /\ sock' = [sock EXCEPT ![c] = "open"]
  /\ client' = [client EXCEPT ![c] = cred]
  /\ LET userId == parseUserIdFromToken(cred.handshake) IN
     sockRooms' = [sockRooms EXCEPT ![c] = IF userId # Null THEN {UserChannel(userId)} ELSE {}]
  /\ out' = <<>>
  /\ lastOp' = Op("connect", "done", c, Absent, NoPatch, 0, "none")
  /\ UNCHANGED <<storeVars, roomVars, now, data, tasks, msgs>>

\* role resolution that takes a member's role from its row
ResolveRole_ByRow(p, userId) ==
  LET proj == FindProject(p, userId) IN
  IF proj.ownerId = userId THEN "OWNER"
  ELSE IF Len(proj.members) > 0 THEN proj.members[1]
  ELSE "VIEWER"

\* role of a verified user: owner, else any membership row, else the initial VIEWER
ResolveRole(p, userId) ==
  LET proj == FindProject(p, userId) IN
  IF proj.ownerId = userId THEN "OWNER"
  ELSE IF Len(proj.members) > 0 THEN "EDITOR"
  ELSE "VIEWER"

\* the tail of handleJoin: join the group, cache the data, answer, announce.
\* On a socket that has disconnected meanwhile only the announcement is seen.
JoinFinish(c, p, userId, role, snapshot) ==
  IF sock[c] = "open"
  THEN /\ sockRooms' = [sockRooms EXCEPT ![c] = @ \cup {p}]
       /\ data' = [data EXCEPT ![c] = [projectId |-> p, userId |-> userId, role |-> role]]
       /\ out' = <<Ev(c, "joined", [snapshot |-> snapshot, role |-> role])>>
                 \o Broadcast(Group(p) \cup {c}, "presence",
                              [userId |-> userId, role |-> role, event |-> "join"])
  ELSE /\ UNCHANGED <<sockRooms, data>>
       /\ out' = Broadcast(Group(p), "presence",
                           [userId |-> userId, role |-> role, event |-> "join"])

\* client.emit: nothing reaches a socket that has disconnected
Emit(c, ev, payload) == IF sock[c] = "open" THEN <<Ev(c, ev, payload)>> ELSE <<>>

\* handleJoin once the snapshot is known: identify the user and go on to the
\* store call that decides the role, or deny
JoinIdentify(i, c, p, snapshot, db) ==
  LET userId == parseUserIdFromToken(client[c].auth) IN
  IF userId # Null
  THEN /\ tasks' = [tasks EXCEPT ![i] = Task("join", "authz", c, p, userId, snapshot)]
       /\ out' = <<>>
       /\ lastOp' = Op("join", "suspended", c, p, NoPatch, 0, db)
  ELSE IF client[c].share # Absent
  THEN /\ tasks' = [tasks EXCEPT ![i] = Task("join", "share", c, p, userId, snapshot)]
       /\ out' = <<>>
       /\ lastOp' = Op("join", "suspended", c, p, NoPatch, 0, db)
  ELSE /\ tasks' = [tasks EXCEPT ![i] = NoTask]
       /\ out' = Emit(c, "joinDenied", [reason |-> "unauthorized"])
       /\ lastOp' = Op("join", "done", c, p, NoPatch, 0, db)

\* handleJoin up to its first store call
JoinStart(c, p) ==
  /\ sock[c] = "open"
  /\ msgs < MaxMsgs
  /\ msgs' = msgs + 1
  /\ \E i \in FreeTask :
       IF getRoom(p) # NoRoom
       THEN JoinIdentify(i, c, p, getRoom(p).snapshot, "none")
       ELSE /\ tasks' = [tasks EXCEPT ![i] = Task("join", "find", c, p, Absent, EMPTY_SNAPSHOT)]
            /\ out' = <<>>
            /\ lastOp' = Op("join", "suspended", c, p, NoPatch, 0, "none")
  /\ UNCHANGED <<storeVars, roomVars, now, connVars>>

\* loadInitial: diagram.findUnique answers
JoinFind(i) ==
  LET t == tasks[i] IN
  /\ t.kind = "join" /\ t.pc = "find"
  /\ IF diagram[t.pid] = NoDiagram
     THEN /\ tasks' = [tasks EXCEPT ![i].pc = "create"]
          /\ out' = <<>>
          /\ lastOp' = Op("join", "suspended", t.conn, t.pid, NoPatch, 0, "diagram.findUnique")
     ELSE JoinIdentify(i, t.conn, t.pid, toSnapshot(diagram[t.pid], now), "diagram.findUnique")
  /\ UNCHANGED <<storeVars, roomVars, now, connVars, msgs>>

\* loadInitial: diagram.create answers; projectId is unique, so a row created
\* meanwhile makes it throw and the handler ends with the framework's 'exception'
JoinCreate(i) ==
  LET t == tasks[i] IN
  /\ t.kind = "join" /\ t.pc = "create"
  /\ IF diagram[t.pid] # NoDiagram
     THEN /\ tasks' = [tasks EXCEPT ![i] = NoTask]
          /\ out' = Emit(t.conn, "exception", [reason |-> "Internal server error"])
          /\ lastOp' = Op("join", "threw", t.conn, t.pid, NoPatch, 0, "diagram.create")
          /\ UNCHANGED diagram
     ELSE /\ diagram' = [diagram EXCEPT ![t.pid] = ToJson(EMPTY_SNAPSHOT)]
          /\ JoinIdentify(i, t.conn, t.pid, EMPTY_SNAPSHOT, "diagram.create")
  /\ UNCHANGED <<members, requests, roomVars, now, connVars, msgs>>

\* project.findUnique answers for a verified user
JoinAuthz(i) ==
  LET t == tasks[i] IN
  /\ t.kind = "join" /\ t.pc = "authz"
  /\ JoinFinish(t.conn, t.pid, t.uid, ResolveRole(t.pid, t.uid), t.snap)
  /\ tasks' = [tasks EXCEPT ![i] = NoTask]
  /\ lastOp' = Op("join", "done", t.conn, t.pid, NoPatch, 0, "project.findUnique")
  /\ UNCHANGED <<storeVars, roomVars, now, sock, client, msgs>>

\* validateShareToken answers for a guest
JoinShare(i) ==
  LET t == tasks[i] IN
  /\ t.kind = "join" /\ t.pc = "share"
  /\ IF validateShareToken(t.pid, client[t.conn].share)
     THEN JoinFinish(t.conn, t.pid, t.uid, "VIEWER", t.snap)
     ELSE /\ out' = Emit(t.conn, "joinDenied", [reason |-> "invalid_share_link"])
          /\ UNCHANGED <<sockRooms, data>>
  /\ tasks' = [tasks EXCEPT ![i] = NoTask]
  /\ lastOp' = Op("join", "done", t.conn, t.pid, NoPatch, 0, "validateShareToken")
  /\ UNCHANGED <<storeVars, roomVars, now, sock, client, msgs>>

\* guards of handlePatch that let too much through, and a relay that echoes to the sender
SameProject_AnyJoined(c, p) == data[c].projectId # Absent
CanEdit_AnyRole(role) == role # Absent
PatchTargets_WithSender(c, p) == Group(p)

\* the guards of handlePatch
SameProject(c, p) == data[c].projectId = p
CanEdit(role) == role = "EDITOR" \/ role = "OWNER"
\* client.to(projectId): the group without the sender
PatchTargets(c, p) == Group(p) \ {c}
\* what is relayed for a patch
Relayed(patch) == patch

handlePatch(c, p, patch) ==
  /\ sock[c] = "open"
  /\ msgs < MaxMsgs
  /\ msgs' = msgs + 1
  /\ getRoom(p) # NoRoom => Len(getRoom(p).pendingPatches) < MaxQueue
  /\ lastOp' = Op("patch", "done", c, p, patch, 0, "none")
  /\ IF ~SameProject(c, p)
     THEN /\ out' = <<>>
          /\ UNCHANGED <<rooms, timer, elapsed, fired>>
     ELSE IF ~CanEdit(data[c].role)
     THEN /\ out' = Emit(c, "editDenied",
                         [reason |-> IF data[c].userId \in Users
                                     THEN "no_permission" ELSE "login_required"])
          /\ UNCHANGED <<rooms, timer, elapsed, fired>>
     ELSE /\ queuePatch(p, patch)
          /\ out' = Broadcast(PatchTargets(c, p), "remotePatch", Relayed(patch))
  /\ UNCHANGED <<storeVars, roomSeq, roomProj, saving, ensured, now, connVars, tasks>>

\* handleDisconnect: the socket has left its groups; a leave is announced to the
\* cached project's group
Disconnect(c) ==
  /\ sock[c] = "open"
  /\ msgs < MaxMsgs
  /\ msgs' = msgs + 1
  /\ sock' = [sock EXCEPT ![c] = "closed"]
  /\ sockRooms' = [sockRooms EXCEPT ![c] = {}]
  /\ out' = IF data[c].projectId # Absent
            THEN Broadcast(Group(data[c].projectId) \ {c}, "presence",
                           [userId |-> data[c].userId, role |-> Absent, event |-> "leave"])
            ELSE <<>>
  /\ lastOp' = Op("disconnect", "done", c, data[c].projectId, NoPatch, 0, "none")
  /\ UNCHANGED <<storeVars, roomVars, now, data, client, tasks>>

(***************************************************************************)
(* The gateway as deployed: nothing calls ensureRoom                       *)
(***************************************************************************)
\* The store when the run starts: each owner holds the OWNER row that project
\* creation writes; u2 is a VIEWER member of p1 and u1 is a stranger to p2; p1 has
\* a stored diagram and p2 has none yet.
InitStore ==
  /\ members = [p \in ProjectIds |-> [u \in Users |->
                  IF u = ProjectOwner(p) THEN "OWNER" ELSE IF p = "p1" THEN "VIEWER" ELSE NoRow]]
  /\ diagram = [p \in ProjectIds |-> IF p = "p1" THEN StoredMalformed ELSE NoDiagram]
  /\ requests = [p \in AnyProjectIds |-> [u \in Users |-> NoReq]]

InitRooms ==
  /\ rooms = [p \in ProjectIds |-> NoRoom]
  /\ roomSeq = 0
  /\ roomProj = [r \in RoomIds |-> Absent]
  /\ timer = [r \in RoomIds |-> Idle]
  /\ elapsed = [r \in RoomIds |-> Idle]
  /\ fired = [r \in RoomIds |-> 0]
  /\ saving = <<>>
  /\ ensured = [p \in ProjectIds |-> 0]

InitConns ==
  /\ sock = [c \in Conns |-> "new"]
  /\ sockRooms = [c \in Conns |-> {}]
  /\ data = [c \in Conns |-> NoData]
  /\ client = [c \in Conns |-> NoCred]
  /\ msgs = 0
  /\ tasks = [i \in TaskIds |-> NoTask]
  /\ out = <<>>
  /\ lastOp = Op("init", "done", Absent, Absent, NoPatch, 0, "none")

Init == InitStore /\ InitRooms /\ InitConns /\ now = BootTime

Next ==
  \/ \E c \in Conns : \E cred \in ClientsOf(c) : Connect(c, cred)
  \/ \E c \in Conns, p \in ProjectIds : JoinStart(c, p)
  \/ \E i \in TaskIds : JoinFind(i)
  \/ \E i \in TaskIds : JoinCreate(i)
  \/ \E i \in TaskIds : JoinAuthz(i)
  \/ \E i \in TaskIds : JoinShare(i)
  \/ \E c \in Conns, p \in ProjectIds, patch \in Patches : handlePatch(c, p, patch)
  \/ \E c \in Conns : Disconnect(c)

Spec == Init /\ [][Next]_vars

(***************************************************************************)
(* RealtimeService driven through its own interface: ensureRoom, queuePatch *)
(* and the debounced save of each room                                     *)
(***************************************************************************)
\* ensureRoom without its early return
roomsHas_Never(p) == FALSE

\* this.rooms.has(projectId)
roomsHas(p) == rooms[p] # NoRoom

Constructed(p) == {r \in RoomIds : roomProj[r] = p}

\* the tail of ensureRoom: a new RoomState with its own debouncedSave is registered
RegisterRoom(i, p, snapshot, db) ==
  LET id == roomSeq + 1 IN
  /\ roomSeq' = id
  /\ rooms' = [rooms EXCEPT ![p] = [id |-> id, snapshot |-> snapshot, pendingPatches |-> <<>>]]
  /\ roomProj' = [roomProj EXCEPT ![id] = p]
  /\ ensured' = [ensured EXCEPT ![p] = id]
  /\ tasks' = [tasks EXCEPT ![i] = NoTask]
  /\ lastOp' = Op("ensureRoom", "done", Absent, p, NoPatch, id, db)

\* ensureRoom up to its first store call: a registered room is returned at once
EnsureStart(p) ==
  /\ msgs < MaxCalls
  /\ msgs' = msgs + 1
  /\ IF roomsHas(p)
     THEN /\ ensured' = [ensured EXCEPT ![p] = rooms[p].id]
          /\ lastOp' = Op("ensureRoom", "done", Absent, p, NoPatch, rooms[p].id, "none")
          /\ UNCHANGED tasks
     ELSE /\ roomSeq + Cardinality({i \in TaskIds : tasks[i].kind = "ensure"}) < MaxRooms
          /\ \E i \in FreeTask :
               tasks' = [tasks EXCEPT ![i] = Task("ensure", "find", Absent, p, Absent, EMPTY_SNAPSHOT)]
          /\ lastOp' = Op("ensureRoom", "suspended", Absent, p, NoPatch, 0, "none")
          /\ UNCHANGED ensured
  /\ out' = <<>>
  /\ UNCHANGED <<storeVars, rooms, roomSeq, roomProj, timer, saving, elapsed, fired, now,
                 connVars>>

\* loadInitial: diagram.findUnique answers
EnsureFind(i) ==
  LET t == tasks[i] IN
  /\ t.kind = "ensure" /\ t.pc = "find"
  /\ IF diagram[t.pid] = NoDiagram
     THEN /\ tasks' = [tasks EXCEPT ![i].pc = "create"]
          /\ lastOp' = Op("ensureRoom", "suspended", Absent, t.pid, NoPatch, 0, "diagram.findUnique")
          /\ UNCHANGED <<rooms, roomSeq, roomProj, ensured>>
     ELSE RegisterRoom(i, t.pid, toSnapshot(diagram[t.pid], now), "diagram.findUnique")
  /\ out' = <<>>
  /\ UNCHANGED <<storeVars, timer, saving, elapsed, fired, now, connVars, msgs>>

\* loadInitial: diagram.create answers, or throws on the row another call created
EnsureCreate(i) ==
  LET t == tasks[i] IN
  /\ t.kind = "ensure" /\ t.pc = "create"
  /\ IF diagram[t.pid] # NoDiagram
     THEN /\ tasks' = [tasks EXCEPT ![i] = NoTask]
          /\ lastOp' = Op("ensureRoom", "threw", Absent, t.pid, NoPatch, 0, "diagram.create")
          /\ UNCHANGED <<diagram, rooms, roomSeq, roomProj, ensured>>
     ELSE /\ diagram' = [diagram EXCEPT ![t.pid] = ToJson(EMPTY_SNAPSHOT)]
          /\ RegisterRoom(i, t.pid, EMPTY_SNAPSHOT, "diagram.create")
  /\ out' = <<>>
  /\ UNCHANGED <<members, requests, timer, saving, elapsed, fired, now, connVars, msgs>>

\* queuePatch called on the service
QueuePatch(p, patch) ==
  /\ msgs < MaxCalls
  /\ msgs' = msgs + 1
  /\ roomsHas(p) => Len(rooms[p].pendingPatches) < MaxQueue
  /\ queuePatch(p, patch)
  /\ out' = <<>>
  /\ lastOp' = Op("queuePatch", "done", Absent, p, patch, rooms[p].id, "none")
  /\ UNCHANGED <<storeVars, roomSeq, roomProj, saving, ensured, now, connVars, tasks>>

\* time passes; a timer that is due fires before the clock moves on
Tick ==
  /\ now < MaxTime
  /\ \A r \in RoomIds : timer[r] # 0
  /\ now' = now + 1
  /\ timer' = [r \in RoomIds |-> IF timer[r] > 0 THEN timer[r] - 1 ELSE timer[r]]
  /\ elapsed' = [r \in RoomIds |->
                   IF elapsed[r] = Idle \/ elapsed[r] > Delay THEN elapsed[r] ELSE elapsed[r] + 1]
  /\ out' = <<>>
  /\ lastOp' = Op("tick", "done", Absent, Absent, NoPatch, 0, "none")
  /\ UNCHANGED <<storeVars, rooms, roomSeq, roomProj, saving, fired, ensured, connVars, msgs, tasks>>

\* a save that folds the queue into the snapshot: a full patch resets the content
ToSave_Applied(room) ==
  IF \E k \in 1..Len(room.pendingPatches) : room.pendingPatches[k].type = "full"
  THEN [nodes |-> <<>>, edges |-> <<>>, updatedAt |-> now]
  ELSE [room.snapshot EXCEPT !.updatedAt = now]

\* the snapshot the debounced save sends to the store
ToSave(room) == [room.snapshot EXCEPT !.updatedAt = now]

\* the debounced callback runs: it looks the room up again and starts the write
SaveFire(r) ==
  /\ timer[r] = 0
  /\ timer' = [timer EXCEPT ![r] = Idle]
  /\ LET p == roomProj[r]
         room == rooms[p]
     IN IF room = NoRoom
        THEN UNCHANGED <<saving, fired>>
        ELSE /\ saving' = Append(saving, [pid |-> p, rid |-> room.id, snap |-> ToSave(room)])
             /\ fired' = [fired EXCEPT ![r] = @ + 1]
  /\ out' = <<>>
  /\ lastOp' = Op("save", "suspended", Absent, roomProj[r], NoPatch, r, "none")
  /\ UNCHANGED <<storeVars, rooms, roomSeq, roomProj, elapsed, ensured, now, connVars, msgs, tasks>>

\* a save that empties the queue once the store has answered
SaveDone_Drain(k) ==
  /\ k \in 1..Len(saving)
  /\ LET w == saving[k] IN
     /\ diagram' = [diagram EXCEPT ![w.pid] = ToJson(w.snap)]
     /\ rooms' = IF rooms[w.pid].id = w.rid
                 THEN [rooms EXCEPT ![w.pid].snapshot = w.snap, ![w.pid].pendingPatches = <<>>]
                 ELSE rooms
     /\ lastOp' = Op("save", "done", Absent, w.pid, NoPatch, w.rid, "diagram.update")
  /\ saving' = [j \in 1..(Len(saving) - 1) |-> IF j < k THEN saving[j] ELSE saving[j + 1]]
  /\ out' = <<>>
  /\ UNCHANGED <<members, requests, roomSeq, roomProj, timer, elapsed, fired, ensured, now, connVars,
                 msgs, tasks>>

\* diagram.update answers: the room object read when the save fired gets the snapshot
SaveDone(k) ==
  /\ k \in 1..Len(saving)
  /\ LET w == saving[k] IN
     /\ diagram' = [diagram EXCEPT ![w.pid] = ToJson(w.snap)]
     /\ rooms' = IF rooms[w.pid].id = w.rid
                 THEN [rooms EXCEPT ![w.pid].snapshot = w.snap] ELSE rooms
     /\ lastOp' = Op("save", "done", Absent, w.pid, NoPatch, w.rid, "diagram.update")
  /\ saving' = [j \in 1..(Len(saving) - 1) |-> IF j < k THEN saving[j] ELSE saving[j + 1]]
  /\ out' = <<>>
  /\ UNCHANGED <<members, requests, roomSeq, roomProj, timer, elapsed, fired, ensured, now, connVars,
                 msgs, tasks>>

\* a save that assigns the room's snapshot before the store has answered
SaveFail_WriteBack(k) ==
  /\ k \in 1..Len(saving)
  /\ rooms' = IF rooms[saving[k].pid].id = saving[k].rid
              THEN [rooms EXCEPT ![saving[k].pid].snapshot = saving[k].snap] ELSE rooms
  /\ lastOp' = Op("save", "threw", Absent, saving[k].pid, NoPatch, saving[k].rid, "diagram.update")
  /\ saving' = [j \in 1..(Len(saving) - 1) |-> IF j < k THEN saving[j] ELSE saving[j + 1]]
  /\ out' = <<>>
  /\ UNCHANGED <<storeVars, roomSeq, roomProj, timer, elapsed, fired, ensured, now,
                 connVars, msgs, tasks>>

\* diagram.update rejects: the callback ends there
SaveFail(k) ==
  /\ k \in 1..Len(saving)
  /\ lastOp' = Op("save", "threw", Absent, saving[k].pid, NoPatch, saving[k].rid, "diagram.update")
  /\ saving' = [j \in 1..(Len(saving) - 1) |-> IF j < k THEN saving[j] ELSE saving[j + 1]]
  /\ out' = <<>>
  /\ UNCHANGED <<storeVars, rooms, roomSeq, roomProj, timer, elapsed, fired, ensured, now,
                 connVars, msgs, tasks>>

NextRoom ==
  \/ \E p \in ProjectIds : EnsureStart(p)
  \/ \E i \in TaskIds : EnsureFind(i)
  \/ \E i \in TaskIds : EnsureCreate(i)
  \/ \E p \in ProjectIds, patch \in Patches : QueuePatch(p, patch)
  \/ Tick
  \/ \E r \in RoomIds : SaveFire(r)
  \/ \E k \in 1..MaxQueue * MaxRooms : SaveDone(k)
  \/ \E k \in 1..MaxQueue * MaxRooms : SaveFail(k)

SpecRoom == Init /\ [][NextRoom]_vars

\* the gateway over a registry that already holds p1's room, with the saves it triggers
NextHot ==
  \/ Next
  \/ Tick
  \/ \E r \in RoomIds : SaveFire(r)
  \/ \E k \in 1..MaxQueue * MaxRooms : SaveDone(k)
  \/ \E k \in 1..MaxQueue * MaxRooms : SaveFail(k)

\* the state once ensureRoom("p1") has completed
InitHot ==
  /\ InitStore /\ InitConns /\ now = BootTime
  /\ rooms = [p \in ProjectIds |->
               IF p = "p1"
               THEN [id |-> 1, snapshot |-> toSnapshot(StoredMalformed, BootTime),
                     pendingPatches |-> <<>>]
               ELSE NoRoom]
  /\ roomSeq = 1
  /\ roomProj = [r \in RoomIds |-> IF r = 1 THEN "p1" ELSE Absent]
  /\ timer = [r \in RoomIds |-> Idle]
  /\ elapsed = [r \in RoomIds |-> Idle]
  /\ fired = [r \in RoomIds |-> 0]
  /\ saving = <<>>
  /\ ensured = [p \in ProjectIds |-> IF p = "p1" THEN 1 ELSE 0]

SpecHot == InitHot /\ [][NextHot]_vars

(***************************************************************************)
(* DiagramGateway: requestEdit and approveEdit                             *)
(***************************************************************************)
\* what a requestEdit carries as message, and an approveEdit as role: the payload
\* of a socket message is not validated, so a role can be any string
Messages == {Absent, "please"}
Roles == {Absent, "EDITOR", "VIEWER", "ADMIN"}

\* prisma.project.findUnique({ where: { id } })
ProjectRow(p) ==
  IF p \in ProjectIds THEN [found |-> TRUE, ownerId |-> ProjectOwner(p)]
  ELSE [found |-> FALSE, ownerId |-> Null]

\* a membership lookup that finds nobody
MemberRow_None(p, u) == NoRow

\* prisma.projectMember.findUnique({ where: { projectId_userId } })
MemberRow(p, u) == IF p \in ProjectIds /\ u \in Users THEN members[p][u] ELSE NoRow

\* the status a created EditRequest gets when create names none
DefaultStatus == "PENDING"

\* a suspended requestEdit or approveEdit, with what it holds of its message
EditTask(kind, pc, conn, pid, uid, arg) ==
  [kind |-> kind, pc |-> pc, conn |-> conn, pid |-> pid, uid |-> uid,
   snap |-> EMPTY_SNAPSHOT, arg |-> arg]

\* a step of requestEdit or approveEdit
EditOp(op, phase, conn, pid, db, arg) ==
  [op |-> op, phase |-> phase, conn |-> conn, pid |-> pid, patch |-> NoPatch,
   rid |-> 0, db |-> db, arg |-> arg]

\* message ?? null
OrNull(v) == IF v = Absent THEN Null ELSE v

\* an upsert whose update resets the status and keeps the stored message
UpsertRequest_KeepMessage(old, p, u, message) ==
  IF old = NoReq
  THEN ReqRow(DefaultStatus, OrNull(message), ReqId(p, u))
  ELSE [old EXCEPT !.status = "PENDING"]

\* an upsert that marks a request it finds as approved
UpsertRequest_AutoApprove(old, p, u, message) ==
  IF old = NoReq
  THEN ReqRow(DefaultStatus, OrNull(message), ReqId(p, u))
  ELSE [old EXCEPT !.status = "APPROVED", !.message = OrNull(message)]

\* editRequest.upsert: create { projectId, requesterId, message ?? null }, or
\* update { status: 'PENDING', message ?? null }
UpsertRequest(old, p, u, message) ==
  IF old = NoReq
  THEN ReqRow(DefaultStatus, OrNull(message), ReqId(p, u))
  ELSE [old EXCEPT !.status = "PENDING", !.message = OrNull(message)]

\* requestEdit up to its first store call
RequestStart(c, p, message) ==
  /\ sock[c] = "open"
  /\ msgs < MaxEdits
  /\ msgs' = msgs + 1
  /\ LET userId == data[c].userId
         arg == [message |-> message, uid |-> userId]
     IN IF userId \notin Users
        THEN /\ out' = Emit(c, "editDenied", [reason |-> "login_required"])
             /\ lastOp' = EditOp("requestEdit", "done", c, p, "none", arg)
             /\ UNCHANGED tasks
        ELSE /\ \E i \in FreeTask :
                  tasks' = [tasks EXCEPT ![i] = EditTask("requestEdit", "member", c, p, userId, arg)]
             /\ out' = <<>>
             /\ lastOp' = EditOp("requestEdit", "suspended", c, p, "none", arg)
  /\ UNCHANGED <<storeVars, roomVars, now, connVars>>

\* projectMember.findUnique answers: a member is granted at once
RequestMember(i) ==
  LET t == tasks[i]
      member == MemberRow(t.pid, t.uid)
  IN /\ t.kind = "requestEdit" /\ t.pc = "member"
     /\ IF member # NoRow
        THEN /\ out' = Emit(t.conn, "editGranted", [role |-> member])
             /\ data' = [data EXCEPT ![t.conn].role = "EDITOR"]
             /\ tasks' = [tasks EXCEPT ![i] = NoTask]
             /\ lastOp' = EditOp("requestEdit", "done", t.conn, t.pid, "projectMember.findUnique", t.arg)
        ELSE /\ out' = <<>>
             /\ tasks' = [tasks EXCEPT ![i].pc = "upsert"]
             /\ lastOp' = EditOp("requestEdit", "suspended", t.conn, t.pid, "projectMember.findUnique", t.arg)
             /\ UNCHANGED data
     /\ UNCHANGED <<storeVars, roomVars, now, sock, sockRooms, client, msgs>>

\* editRequest.upsert answers: the row of (project, requester) is created, or set
\* back to PENDING with the new message.  For an id that names no project the
\* outcome depends on the schema's foreign key: the call throws, or the row is written.
RequestUpsert(i) ==
  LET t == tasks[i]
      old == requests[t.pid][t.uid]
      row == UpsertRequest(old, t.pid, t.uid, t.arg.message)
  IN /\ t.kind = "requestEdit" /\ t.pc = "upsert"
     /\ \/ /\ requests' = [requests EXCEPT ![t.pid][t.uid] = row]
           /\ tasks' = [tasks EXCEPT ![i].pc = "owner"]
           /\ out' = <<>>
           /\ lastOp' = EditOp("requestEdit", "suspended", t.conn, t.pid, "editRequest.upsert", t.arg)
        \/ /\ t.pid \notin ProjectIds
           /\ tasks' = [tasks EXCEPT ![i] = NoTask]
           /\ out' = Emit(t.conn, "exception", [reason |-> "Internal server error"])
           /\ lastOp' = EditOp("requestEdit", "threw", t.conn, t.pid, "editRequest.upsert", t.arg)
           /\ UNCHANGED requests
     /\ UNCHANGED <<members, diagram, roomVars, now, connVars, msgs>>

\* project.findUnique answers: the owner's channel is notified, the requester acknowledged
RequestOwner(i) ==
  LET t == tasks[i]
      owner == ProjectRow(t.pid)
      req == requests[t.pid][t.uid]
  IN /\ t.kind = "requestEdit" /\ t.pc = "owner"
     /\ out' = (IF owner.found /\ owner.ownerId # Null
                THEN Broadcast(Group(UserChannel(owner.ownerId)), "editRequest",
                               [projectId |-> t.pid, requesterId |-> t.uid,
                                requestId |-> ReqId(t.pid, t.uid),
                                message |-> OrNull(t.arg.message)])
                ELSE <<>>)
               \o Emit(t.conn, "requestQueued", Absent)
     /\ tasks' = [tasks EXCEPT ![i] = NoTask]
     /\ lastOp' = EditOp("requestEdit", "done", t.conn, t.pid, "project.findUnique", t.arg)
     /\ UNCHANGED <<storeVars, roomVars, now, connVars, msgs>>

\* a coercion that grants nobody more than VIEWER
CoerceRole_Viewer(role) == "VIEWER"

\* role === 'EDITOR' ? 'EDITOR' : 'VIEWER'
CoerceRole(role) == IF role = "EDITOR" THEN "EDITOR" ELSE "VIEWER"
\* const { role = 'EDITOR' } = data
DefaultRole(role) == IF role = Absent THEN "EDITOR" ELSE role

\* approveEdit up to its first store call: nothing happens without a cached userId
ApproveStart(c, p, u, role) ==
  /\ sock[c] = "open"
  /\ msgs < MaxEdits
  /\ msgs' = msgs + 1
  /\ LET me == data[c].userId
         arg == [userId |-> u, role |-> DefaultRole(role), asked |-> role, me |-> me]
     IN IF me \notin Users
        THEN /\ lastOp' = EditOp("approveEdit", "done", c, p, "none", arg)
             /\ UNCHANGED tasks
        ELSE /\ \E i \in FreeTask :
                  tasks' = [tasks EXCEPT ![i] = EditTask("approveEdit", "project", c, p, me, arg)]
             /\ lastOp' = EditOp("approveEdit", "suspended", c, p, "none", arg)
  /\ out' = <<>>
  /\ UNCHANGED <<storeVars, roomVars, now, connVars>>

\* an approval check that lets every identified user through
IsOwner_AnyUser(p, me) == me \in Users

\* the sender of an approveEdit is the owner of the project row
IsOwner(p, me) == ProjectRow(p).found /\ ProjectRow(p).ownerId = me

\* project.findUnique answers: only the owner of an existing project goes on
ApproveProject(i) ==
  LET t == tasks[i] IN
  /\ t.kind = "approveEdit" /\ t.pc = "project"
  /\ IF IsOwner(t.pid, t.uid)
     THEN /\ tasks' = [tasks EXCEPT ![i].pc = "member"]
          /\ lastOp' = EditOp("approveEdit", "suspended", t.conn, t.pid, "project.findUnique", t.arg)
     ELSE /\ tasks' = [tasks EXCEPT ![i] = NoTask]
          /\ lastOp' = EditOp("approveEdit", "done", t.conn, t.pid, "project.findUnique", t.arg)
  /\ out' = <<>>
  /\ UNCHANGED <<storeVars, roomVars, now, connVars, msgs>>

\* projectMember.upsert answers
ApproveMember(i) ==
  LET t == tasks[i] IN
  /\ t.kind = "approveEdit" /\ t.pc = "member"
  /\ members' = [members EXCEPT ![t.pid][t.arg.userId] = CoerceRole(t.arg.role)]
  /\ tasks' = [tasks EXCEPT ![i].pc = "requests"]
  /\ out' = <<>>
  /\ lastOp' = EditOp("approveEdit", "suspended", t.conn, t.pid, "projectMember.upsert", t.arg)
  /\ UNCHANGED <<diagram, requests, roomVars, now, connVars, msgs>>

\* the role 'memberUpdated' carries
AnnouncedRole(role) == role

\* an approval that also promotes the sockets of the approved user
ApproveRequests_Promote(i) ==
  LET t == tasks[i]
      u == t.arg.userId
  IN /\ t.kind = "approveEdit" /\ t.pc = "requests"
     /\ requests' = [requests EXCEPT ![t.pid][u] =
                       IF @ # NoReq /\ @.status = "PENDING"
                       THEN [@ EXCEPT !.status = "APPROVED"] ELSE @]
     /\ data' = [c \in Conns |->
                   IF data[c].userId = u /\ data[c].projectId = t.pid
                   THEN [data[c] EXCEPT !.role = "EDITOR"] ELSE data[c]]
     /\ out' = Broadcast(Group(t.pid), "memberUpdated",
                         [userId |-> u, role |-> AnnouncedRole(t.arg.role)])
     /\ tasks' = [tasks EXCEPT ![i] = NoTask]
     /\ lastOp' = EditOp("approveEdit", "done", t.conn, t.pid, "editRequest.updateMany", t.arg)
     /\ UNCHANGED <<members, diagram, roomVars, now, sock, sockRooms, client, msgs>>

\* editRequest.updateMany answers, and the group is told
ApproveRequests(i) ==
  LET t == tasks[i]
      u == t.arg.userId
  IN /\ t.kind = "approveEdit" /\ t.pc = "requests"
     /\ requests' = [requests EXCEPT ![t.pid][u] =
                       IF @ # NoReq /\ @.status = "PENDING"
                       THEN [@ EXCEPT !.status = "APPROVED"] ELSE @]
     /\ out' = Broadcast(Group(t.pid), "memberUpdated",
                         [userId |-> u, role |-> AnnouncedRole(t.arg.role)])
     /\ tasks' = [tasks EXCEPT ![i] = NoTask]
     /\ lastOp' = EditOp("approveEdit", "done", t.conn, t.pid, "editRequest.updateMany", t.arg)
     /\ UNCHANGED <<members, diagram, roomVars, now, connVars, msgs>>

\* who connects in the edit-access protocol: on the first socket u1 (owner of p1,
\* stranger to p2) or a guest, on the second u2 (owner of p2, member of p1)
EditClients(c) ==
  IF c = ConnOrder[1]
  THEN {Cred("jwt_u1", "jwt_u1", Absent), Cred(Absent, Absent, "share_p1")}
  ELSE {Cred("jwt_u2", "jwt_u2", Absent)}

\* the edit-access protocol: sockets connect and join, users ask, owners approve
NextEdit ==
  \/ \E c \in Conns : \E cred \in EditClients(c) : Connect(c, cred)
  \/ \E c \in Conns, p \in ProjectIds : JoinStart(c, p)
  \/ \E i \in TaskIds : JoinFind(i)
  \/ \E i \in TaskIds : JoinCreate(i)
  \/ \E i \in TaskIds : JoinAuthz(i)
  \/ \E i \in TaskIds : JoinShare(i)
  \/ \E c \in Conns, p \in AnyProjectIds, m \in Messages : RequestStart(c, p, m)
  \/ \E i \in TaskIds : RequestMember(i)
  \/ \E i \in TaskIds : RequestUpsert(i)
  \/ \E i \in TaskIds : RequestOwner(i)
  \/ \E c \in Conns, p \in AnyProjectIds, u \in Users, role \in Roles : ApproveStart(c, p, u, role)
  \/ \E i \in TaskIds : ApproveProject(i)
  \/ \E i \in TaskIds : ApproveMember(i)
  \/ \E i \in TaskIds : ApproveRequests(i)

\* the EditRequest a stranger's earlier requestEdit left in the store
EarlierRequest == ReqRow("PENDING", "earlier", ReqId("p2", "u1"))

\* the store may already hold u1's pending request for p2
InitEdit ==
  /\ InitRooms /\ InitConns /\ now = BootTime
  /\ members = [p \in ProjectIds |-> [u \in Users |->
                  IF u = ProjectOwner(p) THEN "OWNER" ELSE IF p = "p1" THEN "VIEWER" ELSE NoRow]]
  /\ diagram = [p \in ProjectIds |-> IF p = "p1" THEN StoredMalformed ELSE NoDiagram]
  /\ \E r \in {NoReq, EarlierRequest} :
       requests = [p \in AnyProjectIds |-> [u \in Users |->
                     IF p = "p2" /\ u = "u1" THEN r ELSE NoReq]]

SpecEdit == InitEdit /\ [][NextEdit]_vars

(***************************************************************************)
(* Live sessions: both users are connected and joined to p2 when the run   *)
(* starts; they patch, ask, approve, join again and disconnect             *)
(***************************************************************************)
\* the credentials of the two live sockets: u1 on the first, u2 on the second
LiveCred(c) ==
  IF c = ConnOrder[1] THEN Cred("jwt_u1", "jwt_u1", Absent) ELSE Cred("jwt_u2", "jwt_u2", Absent)
LiveUser(c) == parseUserIdFromToken(LiveCred(c).auth)

\* the state once both sockets have connected and completed a join of p2: u2 as its
\* OWNER, u1 with the initial VIEWER role; the first join created p2's diagram
InitLive ==
  /\ InitRooms /\ now = BootTime
  /\ members = [p \in ProjectIds |-> [u \in Users |->
                  IF u = ProjectOwner(p) THEN "OWNER" ELSE IF p = "p1" THEN "VIEWER" ELSE NoRow]]
  /\ diagram = [p \in ProjectIds |->
                  IF p = "p1" THEN StoredMalformed ELSE ToJson(EMPTY_SNAPSHOT)]
  /\ requests = [p \in AnyProjectIds |-> [u \in Users |-> NoReq]]
  /\ sock = [c \in Conns |-> "open"]
  /\ client = [c \in Conns |-> LiveCred(c)]
  /\ sockRooms = [c \in Conns |-> {UserChannel(LiveUser(c)), "p2"}]
  /\ data = [c \in Conns |->
               [projectId |-> "p2", userId |-> LiveUser(c),
                role |-> ResolveRole("p2", LiveUser(c))]]
  /\ msgs = 0
  /\ tasks = [i \in TaskIds |-> NoTask]
  /\ out = <<>>
  /\ lastOp = Op("init", "done", Absent, Absent, NoPatch, 0, "none")

NextLive ==
  \/ \E c \in Conns, p \in ProjectIds : JoinStart(c, p)
  \/ \E i \in TaskIds : JoinFind(i)
  \/ \E i \in TaskIds : JoinAuthz(i)
  \/ \E c \in Conns, p \in ProjectIds, patch \in Patches : handlePatch(c, p, patch)
  \/ \E c \in Conns, p \in ProjectIds, m \in Messages : RequestStart(c, p, m)
  \/ \E i \in TaskIds : RequestMember(i)
  \/ \E i \in TaskIds : RequestUpsert(i)
  \/ \E i \in TaskIds : RequestOwner(i)
  \/ \E c \in Conns, p \in ProjectIds, u \in Users, role \in Roles : ApproveStart(c, p, u, role)
  \/ \E i \in TaskIds : ApproveProject(i)
  \/ \E i \in TaskIds : ApproveMember(i)
  \/ \E i \in TaskIds : ApproveRequests(i)
  \/ \E c \in Conns : Disconnect(c)

SpecLive == InitLive /\ [][NextLive]_vars

(***************************************************************************)
(* Relay: the owner and a member of p1 are joined to p1, whose room is     *)
(* registered; they send patches and the debounced save runs               *)
(***************************************************************************)
\* the state once ensureRoom("p1") has completed and both sockets have joined p1
InitRelay ==
  /\ InitStore /\ now = BootTime
  /\ rooms = [p \in ProjectIds |->
               IF p = "p1"
               THEN [id |-> 1, snapshot |-> toSnapshot(StoredMalformed, BootTime),
                     pendingPatches |-> <<>>]
               ELSE NoRoom]
  /\ roomSeq = 1
  /\ roomProj = [r \in RoomIds |-> IF r = 1 THEN "p1" ELSE Absent]
  /\ timer = [r \in RoomIds |-> Idle]
  /\ elapsed = [r \in RoomIds |-> Idle]
  /\ fired = [r \in RoomIds |-> 0]
  /\ saving = <<>>
  /\ ensured = [p \in ProjectIds |-> IF p = "p1" THEN 1 ELSE 0]
  /\ sock = [c \in Conns |-> "open"]
  /\ client = [c \in Conns |-> LiveCred(c)]
  /\ sockRooms = [c \in Conns |-> {UserChannel(LiveUser(c)), "p1"}]
  /\ data = [c \in Conns |->
               [projectId |-> "p1", userId |-> LiveUser(c),
                role |-> ResolveRole("p1", LiveUser(c))]]
  /\ msgs = 0
  /\ tasks = [i \in TaskIds |-> NoTask]
  /\ out = <<>>
  /\ lastOp = Op("init", "done", Absent, Absent, NoPatch, 0, "none")

NextRelay ==
  \/ \E c \in Conns, p \in ProjectIds, patch \in Patches : handlePatch(c, p, patch)
  \/ Tick
  \/ \E r \in RoomIds : SaveFire(r)
  \/ \E k \in 1..MaxQueue * MaxRooms : SaveDone(k)
  \/ \E k \in 1..MaxQueue * MaxRooms : SaveFail(k)

SpecRelay == InitRelay /\ [][NextRelay]_vars

(***************************************************************************)
(* Owner notification: u1 asks for edit access to p2 while its owner u2 is *)
(* connected with or without a handshake credential                        *)
(***************************************************************************)
\* who connects: u1 on the first socket; on the second u2, who always sends its
\* authToken in join and may or may not have sent a token in the handshake
NotifyClients(c) ==
  IF c = ConnOrder[1]
  THEN {Cred("jwt_u1", "jwt_u1", Absent)}
  ELSE {Cred("jwt_u2", "jwt_u2", Absent), Cred(Absent, "jwt_u2", Absent)}

NextNotify ==
  \/ \E c \in Conns : \E cred \in NotifyClients(c) : Connect(c, cred)
  \/ \E c \in Conns, p \in ProjectIds : JoinStart(c, p)
  \/ \E i \in TaskIds : JoinFind(i)
  \/ \E i \in TaskIds : JoinCreate(i)
  \/ \E i \in TaskIds : JoinAuthz(i)
  \/ \E c \in Conns, p \in ProjectIds, m \in Messages : RequestStart(c, p, m)
  \/ \E i \in TaskIds : RequestMember(i)
  \/ \E i \in TaskIds : RequestUpsert(i)
  \/ \E i \in TaskIds : RequestOwner(i)

SpecNotify == Init /\ [][NextNotify]_vars

(***************************************************************************)
(* Document REST endpoint: DiagramsController over DiagramsService          *)
(***************************************************************************)
\* bodies of PUT: nodes and edges may be arrays, missing, null or something else;
\* updatedAt may be missing
PutBodies ==
  {Json("obj", "n/a", Fld("arr", <<1>>), Fld("arr", <<>>), Upd("str", 1)),
   Json("obj", "n/a", Fld("null", <<>>), Fld("arr", <<2>>), NoUpd),
   Json("obj", "n/a", Fld("arr", <<>>), Fld("absent", <<>>), NoUpd),
   Json("obj", "n/a", Fld("str", <<>>), Fld("arr", <<>>), NoUpd)}
NoBody == JsonScalar(Absent)

\* an HTTP response to the caller: status and body
Http(u, status, body) == Ev(u, status, body)

\* payload.nodes ?? [], payload.edges ?? [], payload.updatedAt ?? new Date().toISOString()
OrEmpty(f) == IF f.k \in {"absent", "null"} THEN Fld("arr", <<>>) ELSE f
UpsertSnapshot(body, clock) ==
  Json("obj", "n/a", OrEmpty(body.nodes), OrEmpty(body.edges),
       IF body.updatedAt.k \in {"absent", "null"} THEN Upd("str", clock) ELSE body.updatedAt)

\* an access gate that only asks for the project to exist
HasAccess_AnyUser(p, u) == TRUE

\* p.ownerId === userId || p.members.length > 0
HasAccess(p, u) == FindProject(p, u).ownerId = u \/ Len(FindProject(p, u).members) > 0

\* GET and PUT up to the store call of assertProjectAccess
RestStart(kind, u, p, body) ==
  /\ msgs < MaxRest
  /\ msgs' = msgs + 1
  /\ \E i \in FreeTask :
       tasks' = [tasks EXCEPT ![i] = EditTask(kind, "access", Absent, p, u, [uid |-> u, body |-> body])]
  /\ out' = <<>>
  /\ lastOp' = EditOp(kind, "suspended", Absent, p, "none", [uid |-> u, body |-> body])
  /\ UNCHANGED <<storeVars, roomVars, now, connVars>>

RestGetStart(u, p) == RestStart("rest.get", u, p, NoBody)
RestPutStart(u, p, body) == RestStart("rest.put", u, p, body)

\* assertProjectAccess: project.findUnique answers
RestAccess(i) ==
  LET t == tasks[i] IN
  /\ t.kind \in {"rest.get", "rest.put"} /\ t.pc = "access"
  /\ IF t.pid \notin ProjectIds
     THEN /\ tasks' = [tasks EXCEPT ![i] = NoTask]
          /\ out' = <<Http(t.uid, "NotFound", NoBody)>>
          /\ lastOp' = EditOp(t.kind, "threw", Absent, t.pid, "project.findUnique", t.arg)
     ELSE IF ~HasAccess(t.pid, t.uid)
     THEN /\ tasks' = [tasks EXCEPT ![i] = NoTask]
          /\ out' = <<Http(t.uid, "Forbidden", NoBody)>>
          /\ lastOp' = EditOp(t.kind, "threw", Absent, t.pid, "project.findUnique", t.arg)
     ELSE /\ tasks' = [tasks EXCEPT ![i].pc = IF t.kind = "rest.get" THEN "find" ELSE "upsert"]
          /\ out' = <<>>
          /\ lastOp' = EditOp(t.kind, "suspended", Absent, t.pid, "project.findUnique", t.arg)
  /\ UNCHANGED <<storeVars, roomVars, now, connVars, msgs>>

\* getOrInit: diagram.findUnique answers; a stored snapshot is returned as it is
RestFind(i) ==
  LET t == tasks[i] IN
  /\ t.kind = "rest.get" /\ t.pc = "find"
  /\ IF diagram[t.pid] = NoDiagram
     THEN /\ tasks' = [tasks EXCEPT ![i].pc = "create"]
          /\ out' = <<>>
          /\ lastOp' = EditOp("rest.get", "suspended", Absent, t.pid, "diagram.findUnique", t.arg)
     ELSE /\ tasks' = [tasks EXCEPT ![i] = NoTask]
          /\ out' = <<Http(t.uid, "OK", diagram[t.pid])>>
          /\ lastOp' = EditOp("rest.get", "done", Absent, t.pid, "diagram.findUnique", t.arg)
  /\ UNCHANGED <<storeVars, roomVars, now, connVars, msgs>>

\* getOrInit: diagram.create answers, or throws on the row created meanwhile
RestCreate(i) ==
  LET t == tasks[i]
      fresh == ToJson([nodes |-> <<>>, edges |-> <<>>, updatedAt |-> now])
  IN /\ t.kind = "rest.get" /\ t.pc = "create"
     /\ tasks' = [tasks EXCEPT ![i] = NoTask]
     /\ IF diagram[t.pid] # NoDiagram
        THEN /\ out' = <<Http(t.uid, "InternalServerError", NoBody)>>
             /\ lastOp' = EditOp("rest.get", "threw", Absent, t.pid, "diagram.create", t.arg)
             /\ UNCHANGED diagram
        ELSE /\ diagram' = [diagram EXCEPT ![t.pid] = fresh]
             /\ out' = <<Http(t.uid, "OK", fresh)>>
             /\ lastOp' = EditOp("rest.get", "done", Absent, t.pid, "diagram.create", t.arg)
     /\ UNCHANGED <<members, requests, roomVars, now, connVars, msgs>>

\* upsert: diagram.upsert answers with the stored snapshot
RestUpsert(i) ==
  LET t == tasks[i]
      snapshot == UpsertSnapshot(t.arg.body, now)
  IN /\ t.kind = "rest.put" /\ t.pc = "upsert"
     /\ tasks' = [tasks EXCEPT ![i] = NoTask]
     /\ diagram' = [diagram EXCEPT ![t.pid] = snapshot]
     /\ out' = <<Http(t.uid, "OK", snapshot)>>
     /\ lastOp' = EditOp("rest.put", "done", Absent, t.pid, "diagram.upsert", t.arg)
     /\ UNCHANGED <<members, requests, roomVars, now, connVars, msgs>>

\* values the Diagram.snapshot column may hold: a malformed object, a well-formed
\* snapshot, a JSON string of an object
StoredValues ==
  {StoredMalformed,
   Json("obj", "n/a", Fld("arr", <<1, 2>>), Fld("arr", <<3>>), Upd("str", 0)),
   Json("str", "obj", Fld("arr", <<1>>), Fld("absent", <<>>), Upd("str", 0))}

\* p1 is hot: its room was registered from what the store held
InitRest ==
  /\ InitConns /\ now = BootTime
  /\ members = [p \in ProjectIds |-> [u \in Users |->
                  IF u = ProjectOwner(p) THEN "OWNER" ELSE IF p = "p1" THEN "VIEWER" ELSE NoRow]]
  /\ requests = [p \in AnyProjectIds |-> [u \in Users |-> NoReq]]
  /\ \E v \in StoredValues :
       /\ diagram = [p \in ProjectIds |-> IF p = "p1" THEN v ELSE NoDiagram]
       /\ rooms = [p \in ProjectIds |->
                    IF p = "p1"
                    THEN [id |-> 1, snapshot |-> toSnapshot(v, BootTime), pendingPatches |-> <<>>]
                    ELSE NoRoom]
  /\ roomSeq = 1
  /\ roomProj = [r \in RoomIds |-> IF r = 1 THEN "p1" ELSE Absent]
  /\ timer = [r \in RoomIds |-> Idle]
  /\ elapsed = [r \in RoomIds |-> Idle]
  /\ fired = [r \in RoomIds |-> 0]
  /\ saving = <<>>
  /\ ensured = [p \in ProjectIds |-> IF p = "p1" THEN 1 ELSE 0]

\* REST callers beside sockets that join
NextRest ==
  \/ \E c \in Conns : \E cred \in EditClients(c) : Connect(c, cred)
  \/ \E c \in Conns, p \in ProjectIds : JoinStart(c, p)
  \/ \E i \in TaskIds : JoinFind(i)
  \/ \E i \in TaskIds : JoinCreate(i)
  \/ \E i \in TaskIds : JoinAuthz(i)
  \/ \E i \in TaskIds : JoinShare(i)
  \/ \E u \in Users, p \in AnyProjectIds : RestGetStart(u, p)
  \/ \E u \in Users, p \in AnyProjectIds, body \in PutBodies : RestPutStart(u, p, body)
  \/ \E i \in TaskIds : RestAccess(i)
  \/ \E i \in TaskIds : RestFind(i)
  \/ \E i \in TaskIds : RestCreate(i)
  \/ \E i \in TaskIds : RestUpsert(i)

SpecRest == InitRest /\ [][NextRest]_vars

(***************************************************************************)
(* The snapshot normalizer on its own: toSnapshot applied to an input, and *)
(* then to its own result                                                  *)
(***************************************************************************)
\* fields an input object may carry
NodeFields == {Fld("arr", <<1, 2>>), Fld("arr", <<>>), Fld("absent", <<>>), Fld("str", <<>>)}
EdgeFields == {Fld("arr", <<3>>), Fld("absent", <<>>), Fld("str", <<>>), Fld("null", <<>>)}
StampFields == {Upd("str", 1), Upd("absent", 0), Upd("empty", 0), Upd("num", 0)}

\* inputs of toSnapshot: null, undefined, scalars and arrays, strings that do not
\* parse or parse to something that is no object, strings that parse to an object,
\* and objects
NormInputs ==
  {JsonScalar(t) : t \in {"null", "undefined", "num", "bool", "arr"}}
  \cup {Json("str", parse, NoFld, NoFld, NoUpd) : parse \in {"fail", "null", "arr", "num"}}
  \cup {Json(t, IF t = "str" THEN "obj" ELSE "n/a", n, e, upd) :
          t \in {"str", "obj"}, n \in NodeFields, e \in EdgeFields, upd \in StampFields}

\* a call of toSnapshot with its argument
NormTask(pc, x) == EditTask("normalize", pc, Absent, Absent, Absent, [x |-> x])

\* toSnapshot(x) returns
NormalizeInput(i) ==
  LET t == tasks[i]
      result == toSnapshot(t.arg.x, now)
  IN /\ t.kind = "normalize" /\ t.pc = "input"
     /\ tasks' = [tasks EXCEPT ![i] = NormTask("result", ToJson(result))]
     /\ out' = <<Ev(Absent, "normalized", result)>>
     /\ lastOp' = EditOp("normalize", "done", Absent, Absent, "none", t.arg)
     /\ UNCHANGED <<storeVars, roomVars, now, connVars, msgs>>

\* toSnapshot applied to the snapshot it returned
NormalizeResult(i) ==
  LET t == tasks[i]
      result == toSnapshot(t.arg.x, now)
  IN /\ t.kind = "normalize" /\ t.pc = "result"
     /\ Len(out) = 1
     /\ tasks' = [tasks EXCEPT ![i] = NoTask]
     /\ out' = Append(out, Ev(Absent, "normalized", result))
     /\ lastOp' = EditOp("normalize", "done", Absent, Absent, "none", t.arg)
     /\ UNCHANGED <<storeVars, roomVars, now, connVars, msgs>>

InitNorm ==
  /\ InitStore /\ InitRooms /\ now = BootTime
  /\ sock = [c \in Conns |-> "new"]
  /\ sockRooms = [c \in Conns |-> {}]
  /\ data = [c \in Conns |-> NoData]
  /\ client = [c \in Conns |-> NoCred]
  /\ msgs = 0
  /\ out = <<>>
  /\ lastOp = Op("init", "done", Absent, Absent, NoPatch, 0, "none")
  /\ \E x \in NormInputs :
       tasks = [i \in TaskIds |-> IF i = 1 THEN NormTask("input", x) ELSE NoTask]

NextNorm ==
  \/ \E i \in TaskIds : NormalizeInput(i)
  \/ \E i \in TaskIds : NormalizeResult(i)
  \/ Tick

SpecNorm == InitNorm /\ [][NextNorm]_vars

(***************************************************************************)
(* Properties                                                              *)
(***************************************************************************)
\* the last step completed a join of socket c, which is still connected
JoinDone(c) == lastOp.op = "join" /\ lastOp.phase = "done" /\ lastOp.conn = c /\ sock[c] = "open"
\* the identity a join of socket c is verified to carry
Verified(c) == parseUserIdFromToken(client[c].auth)
HasRow(p, u) == u \in Users /\ members[p][u] # NoRow
\* the last step answered socket c with 'joined' and this role, and with no denial
JoinedAs(c, role) ==
  /\ Len(out) >= 1
  /\ out[1].to = c /\ out[1].ev = "joined" /\ out[1].payload.role = role
  /\ \A k \in 1..Len(out) : out[k].ev # "joinDenied"
\* the last step answered socket c with 'joinDenied' and this reason, and nothing else
DeniedFor(c, reason) == out = <<Ev(c, "joinDenied", [reason |-> reason])>>

\* C1: a completed join answers by the role resolution: the owner's verified token
\* gives 'joined' as OWNER, a verified non-owner with a membership row 'joined' as
\* EDITOR, no identity with a valid share token 'joined' as VIEWER, no identity with
\* an invalid share token 'joinDenied' invalid_share_link, no identity and no share
\* token 'joinDenied' unauthorized.
C1_JoinRoleResolution ==
  \A c \in Conns : JoinDone(c) =>
    LET p == lastOp.pid
        u == Verified(c)
        share == client[c].share
    IN /\ (u \in Users /\ u = ProjectOwner(p) => JoinedAs(c, "OWNER"))
       /\ (u \in Users /\ u # ProjectOwner(p) /\ HasRow(p, u) => JoinedAs(c, "EDITOR"))
       /\ (u = Null /\ share # Absent /\ validateShareToken(p, share) => JoinedAs(c, "VIEWER"))
       /\ (u = Null /\ share # Absent /\ ~validateShareToken(p, share)
             => DeniedFor(c, "invalid_share_link"))
       /\ (u = Null /\ share = Absent => DeniedFor(c, "unauthorized"))

\* a member whose row is tagged VIEWER has joined and was given EDITOR
C1_Witness ==
  \E c \in Conns : /\ JoinDone(c) /\ JoinedAs(c, "EDITOR")
                   /\ members[lastOp.pid][Verified(c)] = "VIEWER"

\* C2: a verified user who is neither owner nor member and sends no share token is
\* denied: 'joinDenied', no 'joined', not in the group, no presence for it.
C2_StrangerDenied ==
  \A c \in Conns :
    (/\ JoinDone(c) /\ Verified(c) \in Users /\ Verified(c) # ProjectOwner(lastOp.pid)
     /\ ~HasRow(lastOp.pid, Verified(c)) /\ client[c].share = Absent)
    => /\ \E k \in 1..Len(out) : out[k].to = c /\ out[k].ev = "joinDenied"
       /\ \A k \in 1..Len(out) : out[k].ev \notin {"joined", "presence"}
       /\ lastOp.pid \notin sockRooms[c]

\* the step is handlePatch for a message of socket c
PatchStep(c) == lastOp'.op = "patch" /\ lastOp'.conn = c
RoomsUntouched == rooms' = rooms /\ timer' = timer /\ saving' = saving

\* C3: a patch of a socket whose cached role is VIEWER, for its own project, relays
\* nothing, queues nothing, and is answered with 'editDenied': no_permission with a
\* cached userId, login_required without.
C3_ViewerPatchDenied ==
  [][\A c \in Conns :
       (PatchStep(c) /\ data[c].role = "VIEWER" /\ data[c].projectId = lastOp'.pid)
       => /\ out' = <<Ev(c, "editDenied",
                        [reason |-> IF data[c].userId \in Users
                                    THEN "no_permission" ELSE "login_required"])>>
          /\ RoomsUntouched]_vars

\* a guest that joined over the share link has patched a project whose room is registered
C3_Witness ==
  \E c \in Conns :
    /\ lastOp.op = "patch" /\ lastOp.conn = c /\ data[c].role = "VIEWER"
    /\ data[c].userId = Null /\ data[c].projectId = lastOp.pid
    /\ rooms[lastOp.pid] # NoRoom
    /\ out = <<Ev(c, "editDenied", [reason |-> "login_required"])>>

\* C4: a patch naming another project than the one cached on the socket (or sent
\* before any join) emits nothing to anybody and leaves every room's queue alone.
C4_PatchIsolation ==
  [][\A c \in Conns :
       (PatchStep(c) /\ data[c].projectId # lastOp'.pid)
       => (out' = <<>> /\ RoomsUntouched)]_vars

\* the owner, joined to p2, has patched p1, whose room is registered
C4_Witness ==
  \E c \in Conns :
    /\ lastOp.op = "patch" /\ lastOp.conn = c /\ lastOp.pid = "p1"
    /\ data[c].projectId = "p2" /\ data[c].role = "OWNER"
    /\ rooms["p1"] # NoRoom /\ out = <<>>

\* C5: a patch accepted from an EDITOR or OWNER goes out as 'remotePatch', payload
\* unchanged, once to every other socket in the project's group and not to the sender.
C5_PatchRelay ==
  \A c \in Conns :
    (/\ lastOp.op = "patch" /\ lastOp.conn = c /\ data[c].projectId = lastOp.pid
     /\ data[c].role \in {"EDITOR", "OWNER"})
    => LET others == {d \in Conns \ {c} : sock[d] = "open" /\ lastOp.pid \in sockRooms[d]}
       IN /\ Len(out) = Cardinality(others)
          /\ \A d \in others : \E k \in 1..Len(out) : out[k] = Ev(d, "remotePatch", lastOp.patch)
          /\ \A k \in 1..Len(out) : out[k].to # c

\* an accepted patch has reached the other socket of the group
C5_Witness ==
  /\ lastOp.op = "patch" /\ Len(out) = 1 /\ out[1].ev = "remotePatch"
  /\ out[1].to # lastOp.conn /\ out[1].payload = lastOp.patch

\* C6: after a successful join to p a room for p is registered.
C6_RoomAfterJoin ==
  \A c \in Conns :
    (JoinDone(c) /\ Len(out) >= 1 /\ out[1].ev = "joined") => getRoom(lastOp.pid) # NoRoom

\* C7: a patch accepted from a joined EDITOR or OWNER is in its project's room queue.
C7_AcceptedPatchQueued ==
  \A c \in Conns :
    (/\ lastOp.op = "patch" /\ lastOp.conn = c /\ data[c].projectId = lastOp.pid
     /\ data[c].role \in {"EDITOR", "OWNER"})
    => /\ getRoom(lastOp.pid) # NoRoom
       /\ Len(getRoom(lastOp.pid).pendingPatches) >= 1
       /\ getRoom(lastOp.pid).pendingPatches[Len(getRoom(lastOp.pid).pendingPatches)] = lastOp.patch

\* C8: the queuePatch calls of a burst (no gap of the delay between them) lead to one
\* write: none before the delay has passed since the last call, one once it has.
C8_DebounceCoalescing ==
  \A r \in RoomIds : elapsed[r] # Idle =>
    /\ fired[r] <= 1
    /\ (fired[r] = 1 => elapsed[r] >= Delay)
    /\ (elapsed[r] > Delay => fired[r] = 1)

\* two calls have led to a single write: there was no time for two delays
C8_Witness ==
  \E r \in RoomIds :
    /\ fired[r] = 1 /\ roomProj[r] \in ProjectIds
    /\ rooms[roomProj[r]].id = r /\ Len(rooms[roomProj[r]].pendingPatches) = 2
    /\ now < 2 * Delay

\* C9: ensureRoom called after a call for the same project has completed returns at
\* once the room that call returned, with no store call and nothing constructed.
C9_EnsureRoomIdempotent ==
  [][\A p \in ProjectIds :
       (EnsureStart(p) /\ ensured[p] # 0)
       => /\ lastOp'.phase = "done" /\ lastOp'.rid = ensured[p] /\ lastOp'.db = "none"
          /\ rooms' = rooms /\ roomSeq' = roomSeq /\ tasks' = tasks /\ diagram' = diagram]_vars

\* a second call has returned the registered room
C9_Witness ==
  /\ lastOp.op = "ensureRoom" /\ lastOp.phase = "done" /\ lastOp.db = "none"
  /\ lastOp.rid # 0 /\ lastOp.rid = rooms[lastOp.pid].id /\ roomSeq = 1

\* C10: whatever the interleaving of ensureRoom calls started with no room registered,
\* one room is constructed for the project and no call fails.
C10_EnsureRoomRaceFree ==
  /\ \A p \in ProjectIds : Cardinality(Constructed(p)) <= 1
  /\ ~(lastOp.op = "ensureRoom" /\ lastOp.phase = "threw")

\* the step is a step of approveEdit for a message of socket c
ApproveStep(c) == lastOp'.op = "approveEdit" /\ lastOp'.conn = c
\* socket c's cached userId is the ownerId of an existing project p
CachedOwner(c, p) ==
  data[c].userId \in Users /\ p \in ProjectIds /\ ProjectOwner(p) = data[c].userId

\* C11: an approveEdit from a socket whose cached userId is absent, or is not the
\* ownerId of the named project (or the project does not exist), changes no
\* membership row and no edit request and emits nothing, whatever the cached role.
C11_ApproveNeedsOwner ==
  [][\A c \in Conns :
       (ApproveStep(c) /\ ~CachedOwner(c, lastOp'.pid))
       => (members' = members /\ requests' = requests /\ out' = <<>> /\ data' = data)]_vars

\* u1, whose cached role is OWNER (of p1), has had an approval for p2 ignored after
\* the store was asked
C11_Witness ==
  \E c \in Conns :
    /\ lastOp.op = "approveEdit" /\ lastOp.conn = c /\ lastOp.phase = "done"
    /\ lastOp.db = "project.findUnique" /\ lastOp.pid = "p2"
    /\ data[c].userId = "u1" /\ data[c].role = "OWNER"
    /\ lastOp.arg.userId = "u1" /\ lastOp.arg.role = "EDITOR"
    /\ members["p2"]["u1"] = NoRow /\ out = <<>>

\* the sockets that receive what is broadcast to p's document group
Delivered(p, ev, payload) ==
  \A d \in Conns : (sock[d] = "open" /\ p \in sockRooms[d])
                     => \E k \in 1..Len(out') : out'[k] = Ev(d, ev, payload)

C13_RoleCoercionConsistent ==
  /\ (lastOp.op = "approveEdit" /\ lastOp.db = "projectMember.upsert")
     => members[lastOp.pid][lastOp.arg.userId] =
          (IF lastOp.arg.asked \in {"EDITOR", Absent} THEN "EDITOR" ELSE "VIEWER")
  /\ (lastOp.op = "approveEdit" /\ lastOp.db = "editRequest.updateMany")
     => \A k \in 1..Len(out) :
          out[k].ev = "memberUpdated"
          => out[k].payload.role =
               (IF lastOp.arg.asked \in {"EDITOR", Absent} THEN "EDITOR" ELSE "VIEWER")

\* the step is a step of requestEdit for a message of socket c
RequestStep(c) == lastOp'.op = "requestEdit" /\ lastOp'.conn = c
\* an event of the edit-request path: the owner's notification or the acknowledgement
QueueEvents == {"editRequest", "requestQueued"}

\* C14: a requestEdit from a socket with a cached userId, for a project in which that
\* user holds a membership row, is answered with 'editGranted' once the row is found
\* and the cached role becomes EDITOR; no EditRequest is created or modified and
\* neither 'editRequest' nor 'requestQueued' is emitted.
C14_SelfGrant ==
  [][\A c \in Conns :
       (/\ RequestStep(c) /\ lastOp'.pid \in ProjectIds /\ HasRow(lastOp'.pid, data[c].userId)
        /\ lastOp'.db \in {"none", "projectMember.findUnique"})
       => LET p == lastOp'.pid
              u == data[c].userId
          IN /\ requests' = requests /\ members' = members
             /\ \A k \in 1..Len(out') : out'[k].ev \notin QueueEvents
             /\ lastOp'.db = "none" => (lastOp'.phase = "suspended" /\ out' = <<>> /\ data' = data)
             /\ lastOp'.db = "projectMember.findUnique" =>
                  /\ lastOp'.phase = "done"
                  /\ out' = <<Ev(c, "editGranted", [role |-> members[p][u]])>>
                  /\ data'[c].role = "EDITOR"]_vars

\* u2, joined to its own project as OWNER, asked for p1 where its row is tagged
\* VIEWER: it was granted, its cached role is now EDITOR, no request was recorded
C14_Witness ==
  \E c \in Conns :
    /\ lastOp.op = "requestEdit" /\ lastOp.conn = c /\ lastOp.phase = "done"
    /\ lastOp.pid = "p1" /\ data[c].userId = "u2" /\ data[c].projectId = "p2"
    /\ out = <<Ev(c, "editGranted", [role |-> "VIEWER"])>>
    /\ data[c].role = "EDITOR" /\ requests["p1"]["u2"] = NoReq

SocketsOf(u) == {d \in Conns : sock[d] = "open" /\ parseUserIdFromToken(client[d].handshake) = u}

\* C16: a requestEdit of an identified non-member emits nothing until its last step;
\* that step sends one 'editRequest' {projectId, requesterId, requestId, message} to the
\* sockets of the owner's channel, and to nobody else, and then one 'requestQueued'
\* to the requester; for a project without owner it sends the 'requestQueued' alone.
C16_RequestNotification ==
  [][\A c \in Conns :
       (RequestStep(c) /\ data[c].userId \in Users)
       => LET p == lastOp'.pid
              u == data[c].userId
              owners == IF p \in ProjectIds THEN SocketsOf(ProjectOwner(p)) ELSE {}
              note == [projectId |-> p, requesterId |-> u, requestId |-> requests[p][u].id,
                       message |-> IF lastOp'.arg.message = Absent THEN Null
                                   ELSE lastOp'.arg.message]
          IN /\ (lastOp'.db = "projectMember.findUnique" /\ MemberRow(p, u) = NoRow)
                  => (lastOp'.phase = "suspended" /\ out' = <<>>)
             /\ (lastOp'.db = "editRequest.upsert" /\ lastOp'.phase = "suspended") => out' = <<>>
             /\ lastOp'.db = "project.findUnique" =>
                  /\ lastOp'.phase = "done"
                  /\ Len(out') = Cardinality(owners) + 1
                  /\ out'[Len(out')] = Ev(c, "requestQueued", Absent)
                  /\ \A d \in owners :
                       \E k \in 1..(Len(out') - 1) : out'[k] = Ev(d, "editRequest", note)]_vars

\* u1 asked for p2 with a message: the socket of the owner u2 got the 'editRequest'
\* and then u1's socket the 'requestQueued'
C16_Witness ==
  \E c, d \in Conns :
    /\ lastOp.op = "requestEdit" /\ lastOp.conn = c /\ lastOp.phase = "done"
    /\ lastOp.pid = "p2" /\ data[c].userId = "u1" /\ d # c
    /\ out = <<Ev(d, "editRequest",
                  [projectId |-> "p2", requesterId |-> "u1",
                   requestId |-> ReqId("p2", "u1"), message |-> "please"]),
               Ev(c, "requestQueued", Absent)>>

\* the step is a step of a REST GET or PUT
RestStep == lastOp'.op \in {"rest.get", "rest.put"}
\* the store's answer to who may use project p: its owner and its members
Allowed(p, u) == p \in ProjectIds /\ (ProjectOwner(p) = u \/ members[p][u] # NoRow)

\* C17: a REST GET or PUT by user u fails with NotFound when the project does not
\* exist and with Forbidden when u is neither owner nor member, and then makes no
\* diagram call at all; an owner or member passes the gate and the operation goes on.
C17_RestAccessGate ==
  [][RestStep =>
       LET p == lastOp'.pid
           u == lastOp'.arg.uid
       IN /\ ~Allowed(p, u) =>
               /\ lastOp'.db \in {"none", "project.findUnique"}
               /\ diagram' = diagram
               /\ lastOp'.db = "project.findUnique" =>
                    /\ lastOp'.phase = "threw"
                    /\ out' = <<Http(u, IF p \in ProjectIds THEN "Forbidden" ELSE "NotFound", NoBody)>>
          /\ (Allowed(p, u) /\ lastOp'.db = "project.findUnique")
               => (lastOp'.phase = "suspended" /\ out' = <<>>)]_vars

\* u1, a stranger to p2, was refused a PUT and p2 still has no diagram row
C17_Witness ==
  /\ lastOp.op = "rest.put" /\ lastOp.phase = "threw" /\ lastOp.pid = "p2"
  /\ lastOp.arg.uid = "u1" /\ out = <<Http("u1", "Forbidden", NoBody)>>
  /\ diagram["p2"] = NoDiagram

\* C18: a REST GET of a project whose room is registered answers with the room's
\* snapshot and does not read the diagram from the store.
C18_GetServesHotRoom ==
  (lastOp.op = "rest.get" /\ lastOp.phase = "done" /\ getRoom(lastOp.pid) # NoRoom)
  => /\ out = <<Http(lastOp.arg.uid, "OK", ToJson(getRoom(lastOp.pid).snapshot))>>
     /\ lastOp.db \notin {"diagram.findUnique", "diagram.create"}

\* nodes and edges of a snapshot object are sequences
SeqShaped(snapshot) == snapshot.nodes \in Seq(Nat) /\ snapshot.edges \in Seq(Nat)
\* nodes and edges of a JSON body are arrays
ArrShaped(json) == json.nodes.k = "arr" /\ json.edges.k = "arr"

\* C19: every snapshot handed out has nodes and edges that are sequences: the one in
\* 'joined', the body of a GET or PUT answer, and each room's snapshot.
C19_SnapshotShape ==
  /\ \A k \in 1..Len(out) :
       /\ out[k].ev = "joined" => SeqShaped(out[k].payload.snapshot)
       /\ out[k].ev = "OK" => ArrShaped(out[k].payload)
  /\ \A p \in ProjectIds : getRoom(p) # NoRoom => SeqShaped(getRoom(p).snapshot)

\* C20: normalizing the snapshot that normalizing x returned gives that snapshot
\* again, for every input x and whatever time passed between the two calls.
C20_NormalizerIdempotent ==
  (lastOp.op = "normalize" /\ Len(out) = 2) => out[2].payload = out[1].payload

\* an object with a non-array edges and no updatedAt was normalized and stamped
\* with the time of the call; the result was normalized again later and is unchanged
C20_Witness ==
  /\ lastOp.op = "normalize" /\ Len(out) = 2
  /\ out[1].payload = [nodes |-> <<1, 2>>, edges |-> <<>>, updatedAt |-> 1]
  /\ out[2].payload = out[1].payload
  /\ now > 1

\* inputs that toSnapshot answers with the default snapshot: null, undefined, scalars
\* and arrays, and strings that do not parse to an object
DefaultInput(x) ==
  \/ x.t \in {"null", "undefined", "num", "bool", "arr"}
  \/ x.t = "str" /\ x.parse # "obj"

\* C21: for a null, undefined, non-object or unparseable input the normalizer returns
\* empty nodes and edges and an updatedAt equal to the time of the call, not an
\* earlier instant.
C21_NormalizerDefaults ==
  (lastOp.op = "normalize" /\ Len(out) = 1 /\ DefaultInput(lastOp.arg.x))
    => out[1].payload = [nodes |-> <<>>, edges |-> <<>>, updatedAt |-> now]

\* authTokens whose verification throws
FailingTokens == {"jwt_forged"}

\* C22: a join whose authToken fails verification is handled exactly as the same join
\* without an authToken: no error about the token is emitted, the share token alone
\* decides (valid: 'joined' as VIEWER with no cached userId; invalid: 'joinDenied'
\* invalid_share_link), and without a share token it is 'joinDenied' unauthorized.
C22_AuthFailureSilent ==
  \A c \in Conns :
    (JoinDone(c) /\ client[c].auth \in FailingTokens) =>
      LET p == lastOp.pid
          share == client[c].share
      IN /\ \A k \in 1..Len(out) : out[k].ev \in {"joined", "presence", "joinDenied"}
         /\ share = Absent => DeniedFor(c, "unauthorized")
         /\ (share # Absent /\ ~validateShareToken(p, share))
              => DeniedFor(c, "invalid_share_link")
         /\ (share # Absent /\ validateShareToken(p, share))
              => /\ JoinedAs(c, "VIEWER")
                 /\ data[c] = [projectId |-> p, userId |-> Null, role |-> "VIEWER"]
                 /\ \A k \in 1..Len(out) :
                      out[k].ev = "presence" => out[k].payload.userId = Null

\* a socket that sends a forged authToken and the share link of p1 has joined p1 as
\* a VIEWER without identity
C22_Witness ==
  \E c \in Conns :
    /\ JoinDone(c) /\ client[c].auth = "jwt_forged" /\ client[c].share = "share_p1"
    /\ lastOp.pid = "p1" /\ JoinedAs(c, "VIEWER") /\ data[c].userId = Null

\* a join handler of socket c has started and not completed
JoinPending(c) == \E i \in TaskIds : tasks[i].kind = "join" /\ tasks[i].conn = c

\* C23: messages of one connection are handled in order: once a join of a connection
\* has been received, no later message of that connection (patch, requestEdit,
\* approveEdit) is processed before the join handler has completed.
C23_JoinCompletesFirst ==
  \A c \in Conns :
    (lastOp.op \in {"patch", "requestEdit", "approveEdit"} /\ lastOp.conn = c)
      => ~JoinPending(c)

\* the document groups socket c is a member of
DocGroups(c) == sockRooms[c] \cap AnyProjectIds

\* C24: a connection is a member of at most one document group at any time, and once
\* it has joined, the projectId cached on it never changes, whatever joins it sends.
C24_OneProjectPerConnection ==
  \A c \in Conns : Cardinality(DocGroups(c)) <= 1

\* the store writes of debounced saves of project p that have not answered yet
InFlight(p) == {k \in 1..Len(saving) : saving[k].pid = p}

\* C25: at most one store write of a debounced save is in flight per project at any
\* time, also when a write takes longer than the debounce delay.
C25_SingleSavePipeline ==
  \A p \in ProjectIds : Cardinality(InFlight(p)) <= 1

\* room p is the same room object before and after the step
SameRoom(p) == rooms[p] # NoRoom /\ rooms'[p] # NoRoom /\ rooms'[p].id = rooms[p].id

\* C26: the updatedAt of a room's in-memory snapshot never decreases, and when a save
\* of the room has answered and none is in flight it equals the updatedAt of the
\* snapshot that save persisted.
C26_SaveWriteBack ==
  [][\A p \in ProjectIds :
       SameRoom(p) =>
         /\ rooms'[p].snapshot.updatedAt >= rooms[p].snapshot.updatedAt
         /\ (/\ lastOp'.op = "save" /\ lastOp'.phase = "done" /\ lastOp'.pid = p
             /\ lastOp'.rid = rooms[p].id /\ InFlight(p)' = {})
            => diagram'[p] = ToJson(rooms'[p].snapshot)]_vars

\* C27: queuePatch leaves a room's snapshot as it is, and a save changes nothing of it
\* but updatedAt: the nodes and edges of a room never change after it is created.
C27_SnapshotFrame ==
  [][\A p \in ProjectIds :
       SameRoom(p) =>
         /\ rooms'[p].snapshot.nodes = rooms[p].snapshot.nodes
         /\ rooms'[p].snapshot.edges = rooms[p].snapshot.edges
         /\ lastOp'.op = "queuePatch" => rooms'[p].snapshot = rooms[p].snapshot
         /\ rooms'[p].snapshot # rooms[p].snapshot
              => lastOp'.op = "save" /\ lastOp'.phase = "done"]_vars

\* a room with content and a queued full patch was saved: its snapshot carries the
\* time of the save and the content it was loaded with
C27_Witness ==
  /\ lastOp.op = "save" /\ lastOp.phase = "done" /\ lastOp.pid = "p1"
  /\ rooms["p1"].id = lastOp.rid
  /\ \E k \in 1..Len(rooms["p1"].pendingPatches) : rooms["p1"].pendingPatches[k].type = "full"
  /\ rooms["p1"].snapshot.nodes = <<1>>
  /\ rooms["p1"].snapshot.updatedAt > BootTime

\* C28: an approval leaves the role cached on every open connection as it is: a
\* connection of the approved user that joined as VIEWER is still answered
\* 'editDenied' on a patch, although the user now holds a membership row.
C28_ApprovalKeepsSessions ==
  [][/\ lastOp'.op = "approveEdit" => data' = data
     /\ \A c \in Conns :
          (/\ PatchStep(c) /\ data[c].role = "VIEWER" /\ data[c].projectId = lastOp'.pid
           /\ HasRow(lastOp'.pid, data[c].userId))
          => /\ out' = <<Ev(c, "editDenied", [reason |-> "no_permission"])>>
             /\ data'[c].role = "VIEWER"]_vars

\* u1, joined to p2 as VIEWER, was approved as EDITOR by the owner and has patched
\* p2 on the same connection: the patch was denied
C28_Witness ==
  \E c \in Conns :
    /\ lastOp.op = "patch" /\ lastOp.conn = c /\ lastOp.pid = "p2"
    /\ data[c] = [projectId |-> "p2", userId |-> "u1", role |-> "VIEWER"]
    /\ members["p2"]["u1"] = "EDITOR"
    /\ out = <<Ev(c, "editDenied", [reason |-> "no_permission"])>>

\* C29: the status of an edit request becomes APPROVED only in an approveEdit sent by
\* the owner of the request's project, for that requester, from PENDING; no other
\* operation sets APPROVED, and no operation deletes a request.
C29_ApprovedOnlyByOwner ==
  [][\A p \in AnyProjectIds, u \in Users :
       /\ (requests'[p][u].status = "APPROVED" /\ requests[p][u].status # "APPROVED")
            => /\ lastOp'.op = "approveEdit" /\ lastOp'.db = "editRequest.updateMany"
               /\ lastOp'.pid = p /\ lastOp'.arg.userId = u
               /\ ProjectRow(p).found /\ ProjectRow(p).ownerId = data[lastOp'.conn].userId
               /\ requests[p][u].status = "PENDING"
       /\ requests[p][u] # NoReq
            => requests'[p][u] # NoReq /\ requests'[p][u].id = requests[p][u].id]_vars

\* the owner of p2 has approved u1 as a VIEWER: u1's pending request is APPROVED
C29_Witness ==
  /\ lastOp.op = "approveEdit" /\ lastOp.phase = "done" /\ lastOp.pid = "p2"
  /\ lastOp.arg.userId = "u1" /\ lastOp.arg.role = "VIEWER"
  /\ data[lastOp.conn].userId = "u2"
  /\ requests["p2"]["u1"].status = "APPROVED"

\* event k of the step just taken is this presence event delivered to socket d
PresenceTo(k, d, event, userId) ==
  /\ out'[k].to = d /\ out'[k].ev = "presence"
  /\ out'[k].payload.event = event /\ out'[k].payload.userId = userId

\* C30: a successful join broadcasts presence 'join' to the project's group, the
\* joiner included; a disconnect broadcasts presence 'leave' to each document group
\* the connection had joined; a connection that never joined causes no presence.
C30_PresenceLifecycle ==
  [][\A c \in Conns :
       /\ (/\ lastOp'.op = "join" /\ lastOp'.conn = c
           /\ \E k \in 1..Len(out') : out'[k].to = c /\ out'[k].ev = "joined")
          => \A d \in Conns :
               (sock'[d] = "open" /\ lastOp'.pid \in sockRooms'[d])
               => \E k \in 1..Len(out') : PresenceTo(k, d, "join", data'[c].userId)
       /\ (lastOp'.op = "disconnect" /\ lastOp'.conn = c)
          => \A g \in DocGroups(c) : \A d \in Group(g) \ {c} :
               \E k \in 1..Len(out') : PresenceTo(k, d, "leave", data[c].userId)
       /\ (lastOp'.conn = c /\ \E k \in 1..Len(out') : out'[k].ev = "presence")
          => data'[c].projectId # Absent]_vars

\* C31: however the loadInitial calls of concurrent joins interleave on a project
\* without a diagram record, no call fails with a store error, and the record that
\* exists afterwards holds the empty snapshot; an existing record is never written.
C31_LoadInitialConcurrent ==
  /\ ~(lastOp.op = "join" /\ lastOp.phase = "threw")
  /\ diagram["p1"] = StoredMalformed
  /\ diagram["p2"] \in {NoDiagram, ToJson(EMPTY_SNAPSHOT)}

\* the 'remotePatch' payloads of the step just taken
RelayedNow == {out'[k].payload : k \in {j \in 1..Len(out') : out'[j].ev = "remotePatch"}}

\* C32: a patch is appended to the end of its room's queue in the very step that
\* broadcasts it, so per project the queue order, the broadcast order and the order
\* in which the handlers ran are the same, and no step broadcasts without queueing.
C32_PatchOrdering ==
  [][\A p \in ProjectIds :
       SameRoom(p) =>
         /\ (\E k \in 1..Len(out') : out'[k].ev = "remotePatch") /\ lastOp'.pid = p
              => /\ lastOp'.op = "patch"
                 /\ RelayedNow = {lastOp'.patch}
                 /\ rooms'[p].pendingPatches = Append(rooms[p].pendingPatches, lastOp'.patch)
         /\ rooms'[p].pendingPatches # rooms[p].pendingPatches
              => /\ lastOp'.op = "patch" /\ lastOp'.pid = p
                 /\ rooms'[p].pendingPatches = Append(rooms[p].pendingPatches, lastOp'.patch)
                 /\ Len(out') = Cardinality(Group(p) \ {lastOp'.conn})
                 /\ \A k \in 1..Len(out') : out'[k].payload = lastOp'.patch]_vars

\* the owner's patch and then the member's patch were queued in that order, and the
\* member's has just been relayed to the owner
C32_Witness ==
  /\ lastOp.op = "patch" /\ lastOp.pid = "p1" /\ data[lastOp.conn].role = "EDITOR"
  /\ rooms["p1"].pendingPatches = <<[type |-> "nodeMoved", id |-> "n1"], lastOp.patch>>
  /\ lastOp.patch.type = "full"
  /\ Len(out) = 1 /\ out[1].ev = "remotePatch" /\ data[out[1].to].role = "OWNER"
  /\ out[1].payload = lastOp.patch

\* C33: a connection whose cached role is EDITOR or OWNER belongs to a user who owns
\* the cached project or holds a membership row of it; a requestEdit naming another
\* project than the one joined gives no right to patch the joined project.
C33_RoleMatchesProject ==
  \A c \in Conns :
    data[c].role \in {"EDITOR", "OWNER"} =>
      /\ data[c].userId \in Users
      /\ \/ ProjectOwner(data[c].projectId) = data[c].userId
         \/ HasRow(data[c].projectId, data[c].userId)

\* the diagram records as they were before any join
StoreUntouched == diagram = [p \in ProjectIds |-> IF p = "p1" THEN StoredMalformed ELSE NoDiagram]

\* C34: a join that ends in 'joinDenied' has created or modified no diagram record.
\* Stated for a run in which one connection alone has sent joins and none of them
\* succeeded: the diagram records are then as they were at the start.
C34_DeniedJoinNoWrite ==
  \A c \in Conns :
    (/\ JoinDone(c) /\ \E k \in 1..Len(out) : out[k].to = c /\ out[k].ev = "joinDenied"
     /\ data[c] = NoData
     /\ \A d \in Conns \ {c} : sock[d] = "new"
     /\ \A i \in TaskIds : tasks[i] = NoTask)
    => StoreUntouched

\* no handler is suspended
Quiescent == \A i \in TaskIds : tasks[i] = NoTask

\* C35: however the requestEdit handlers of a user and the approveEdit handler of the
\* owner interleave at their store calls, once all of them have finished a user who
\* holds a membership row has no EditRequest left PENDING for that project.
C35_ApprovalSettlesRequest ==
  \A p \in ProjectIds, u \in Users :
    (Quiescent /\ HasRow(p, u)) => requests[p][u].status # "PENDING"

\* C36: when the store write of a debounced save fails, every room's snapshot
\* (updatedAt included) and queue are as before, the store is as before, and no
\* timer is started: no save follows until another patch is queued.
C36_FailedSaveFrame ==
  [][(lastOp'.op = "save" /\ lastOp'.phase = "threw")
       => /\ rooms' = rooms
          /\ diagram' = diagram
          /\ timer' = timer
          /\ Len(saving') = Len(saving) - 1]_vars

\* the only save of p1's room has failed some time after it fired: the room holds the
\* snapshot it was loaded with, the record is as stored, and no timer is running
C36_Witness ==
  /\ lastOp.op = "save" /\ lastOp.phase = "threw" /\ lastOp.pid = "p1"
  /\ rooms["p1"].id = lastOp.rid
  /\ Len(rooms["p1"].pendingPatches) = 1
  /\ rooms["p1"].snapshot.updatedAt < now
  /\ diagram["p1"] = StoredMalformed
  /\ saving = <<>> /\ \A r \in RoomIds : timer[r] = Idle

\* the user the handshake credential of socket c verified to
HandshakeUser(c) == parseUserIdFromToken(client[c].handshake)

\* C37: a connection is in the channel user:<u> only if its handshake credential
\* verified to u, and 'editRequest' reaches only such connections of the owner: an
\* owner connection identified by the authToken of its join alone gets none.
C37_OwnerChannelByHandshake ==
  /\ \A c \in Conns, u \in Users : UserChannel(u) \in sockRooms[c] => HandshakeUser(c) = u
  /\ \A k \in 1..Len(out) :
       out[k].ev = "editRequest"
         => HandshakeUser(out[k].to) = ProjectOwner(out[k].payload.projectId)

\* u2 is joined to p2 as OWNER on a connection without handshake credential; u1's
\* requestEdit for p2 was queued and no 'editRequest' went out
C37_Witness ==
  \E c \in Conns :
    /\ sock[c] = "open" /\ client[c].handshake = Absent
    /\ data[c] = [projectId |-> "p2", userId |-> "u2", role |-> "OWNER"]
    /\ lastOp.op = "requestEdit" /\ lastOp.phase = "done" /\ lastOp.pid = "p2"
    /\ requests["p2"]["u1"].status = "PENDING"
    /\ \E k \in 1..Len(out) : out[k].ev = "requestQueued"
    /\ \A k \in 1..Len(out) : out[k].ev # "editRequest"

\* C38: a room's queue only grows: each queuePatch for its project appends one patch
\* at the end and no other step, the save included, changes the queue; queuePatch
\* for a project without a registered room changes nothing and starts no timer.
C38_QueueOnlyGrows ==
  [][\A p \in ProjectIds :
       /\ SameRoom(p) =>
            IF lastOp'.op = "queuePatch" /\ lastOp'.pid = p
            THEN rooms'[p].pendingPatches = Append(rooms[p].pendingPatches, lastOp'.patch)
            ELSE rooms'[p].pendingPatches = rooms[p].pendingPatches
       /\ (lastOp'.op = "queuePatch" /\ lastOp'.pid = p /\ rooms[p] = NoRoom)
            => rooms' = rooms /\ timer' = timer /\ saving' = saving /\ diagram' = diagram]_vars

\* two patches were queued and the save of the room has answered: both are still
\* in the queue, in the order of the calls
C38_Witness ==
  /\ lastOp.op = "save" /\ lastOp.phase = "done" /\ lastOp.pid = "p1"
  /\ rooms["p1"].id = lastOp.rid
  /\ rooms["p1"].pendingPatches =
       <<[type |-> "full", id |-> "-"], [type |-> "nodeMoved", id |-> "n1"]>>
  /\ diagram["p1"] = ToJson(rooms["p1"].snapshot)

====
